---- MODULE Spec2Model ----
(***************************************************************************)
(* Training worker of web-autoencoder (src/src/lib/gif-encoder.worker.ts). *)
(*                                                                         *)
(* The worker is one sequential stream of execution: the onmessage handler *)
(* and the zero-delay trainingLoop timer callbacks run one at a time.      *)
(* Every action below is one whole handler run.                            *)
(*                                                                         *)
(* Number representation.  Learning rates are fixed-point integers in      *)
(* units of 1e-6 (0.01 is 10000, 0.0001 is 100), momentum is in units of   *)
(* 1e-3 (0.9 is 900).  The sampled rates are multiples of 400, so that two *)
(* successive multiplications by 0.95 are exact.  Losses are non-negative  *)
(* integers in an arbitrary unit; NaN is the one non-number.               *)
(* Weights and velocities are abstract values: the weights 1 and 2 name    *)
(* distinct parameter vectors, velocity 0 is the all-zero buffer and 1 a   *)
(* buffer that training has written.                                       *)
(***************************************************************************)
EXTENDS Integers, Sequences, FiniteSets, TLC

VARIABLES
    network,                 \* the NeuralNetwork object, or NullNetwork
    imageData,               \* 0 is null, otherwise the identity of the image
    imageWidth,
    imageHeight,
    isTraining,
    iteration,
    batchSize,
    renderRequested,
    initialLearningRate,
    learningRate,
    momentum,
    minLearningRate,
    lossHistory,
    snapshots,
    captureSnapshotsEnabled,
    snapshotMilestones,
    gifFrameCount,
    timers,                  \* pending setTimeout(trainingLoop, 0) callbacks
    posted,                  \* events posted by the handler that ran last
    last,                    \* the message handled last: its type ("timer" for a
                             \* callback) and, of init, reset,
                             \* enableSnapshotCapture and renderSnapshot, its
                             \* fields
    shared,                  \* indexes of the snapshots whose arrays are the
                             \* very arrays of the model (same storage)
    taken,                   \* history: for each snapshot held, the iteration,
                             \* the parameters and the outputs of predict of the
                             \* model when it was taken
    probe,                   \* a part of the module on its own: the state it
                             \* reads (the parameters of a NeuralNetwork, or
                             \* the batch size), and the last call made with
                             \* its arguments and its result
    retained,                \* storage of the pixel buffers the worker still
                             \* refers to once a handler has returned
    ticked,                  \* the handler that ran last executed a training tick
    budget,                  \* training ticks this behaviour may still execute
    commands                 \* messages this behaviour may still handle

vars == <<network, imageData, imageWidth, imageHeight, isTraining, iteration,
          batchSize, renderRequested, initialLearningRate, learningRate,
          momentum, minLearningRate, lossHistory, snapshots,
          captureSnapshotsEnabled, snapshotMilestones, gifFrameCount,
          timers, posted, last, shared, taken, probe, retained, ticked,
          budget, commands>>

----------------------------------------------------------------------------
(* Bounds of the model *)

MaxTicks == 2
MaxCommands == 3
MaxWarmCommands == 1
MaxTimers == 2
MaxCaptureTicks == 4
MaxCaptureCommands == 2

(* Program constants *)

LOSS_HISTORY_SIZE == 100
DECAY_THRESHOLD_INV == 1000      \* DECAY_THRESHOLD = 0.001 = 1 / 1000
DECAY_FACTOR_PCT == 95           \* DECAY_FACTOR = 0.95 = 95 / 100
batchesPerFrame == 50
StartLearningRate == 10000       \* let learningRate = 0.01
DefaultMomentum == 900           \* 0.9
DefaultBatchSize == 5
DefaultMinLearningRate == 100    \* 0.0001
DefaultFrameCount == 50
DefaultMaxIterations == 1000000

NaN == -1                        \* the loss 0/0; never compared as a number

----------------------------------------------------------------------------
(* Inputs the commands are drawn from.  <<>> is an omitted (undefined)     *)
(* field, <<v>> a field with value v.                                      *)

LearningRates == {0, 10000}
Momenta == {500}
BatchSizes == {0}

\* The reset messages: no field; a zero rate; a rate and a momentum.
ResetArgs ==
    {[learningRate |-> <<>>, momentum |-> <<>>],
     [learningRate |-> <<0>>, momentum |-> <<>>],
     [learningRate |-> <<10000>>, momentum |-> <<500>>]}

\* The init messages: the defaults; a floor just below the rate; a negative
\* rate above a negative floor; a zero rate with an empty batch.
InitArgs ==
    {[learningRate |-> 10000, momentum |-> <<>>, batchSize |-> <<>>,
      minLearningRate |-> <<>>],
     [learningRate |-> 10000, momentum |-> <<500>>, batchSize |-> <<1>>,
      minLearningRate |-> <<9800>>],
     [learningRate |-> -10000, momentum |-> <<>>, batchSize |-> <<>>,
      minLearningRate |-> <<-20000>>],
     [learningRate |-> 0, momentum |-> <<>>, batchSize |-> <<0>>,
      minLearningRate |-> <<>>]}
Images == {[data |-> 1, width |-> 2, height |-> 2]}
Losses == {0, 1000}
Weights == {1, 2}
Velocities == {1}
\* enableSnapshotCapture is sampled with both fields given; the schedules
\* are <<0, 100>> and <<0, 10, 100, 100>>.
MaxIterationsArgs == {<<100>>}
FrameCountArgs == {<<2>>, <<4>>}
SnapshotIndexes == -1..2
\* Inputs (x, y) of predict.
Points == {<<-1, -1>>, <<0, 0>>}

Max(a, b) == IF a >= b THEN a ELSE b

\* Mutant: x || d, which also replaces a given 0.
NullishOrZero(x, d) == IF x = <<>> \/ x = <<0>> THEN d ELSE x[1]

\* x ?? d
Nullish(x, d) == IF x = <<>> THEN d ELSE x[1]

\* x || d, for a number x
OrDefault(x, d) == IF x = <<>> \/ x = <<0>> THEN d ELSE x[1]

----------------------------------------------------------------------------
(* NeuralNetwork *)

NullNetwork == [present |-> FALSE, learningRate |-> 0, momentum |-> 0,
                weights |-> 0, velocities |-> 0]

\* new NeuralNetwork(config): random weights, zero velocities
NewNetwork(lr, m, w) == [present |-> TRUE, learningRate |-> lr, momentum |-> m,
                         weights |-> w, velocities |-> 0]

\* Mutant: the rate is not pushed into the model.
SetLearningRateIgnored(net, lr) == net

SetLearningRate(net, lr) == [net EXCEPT !.learningRate = lr]

SetMomentum(net, m) == [net EXCEPT !.momentum = m]

CreateSnapshot(net, it) == [iteration |-> it, weights |-> net.weights]

\* Mutant: restoring also zeroes the velocity buffers.
RestoreResettingVelocities(net, snapshot) ==
    [net EXCEPT !.weights = snapshot.weights, !.velocities = 0]

\* Mutant: restoring leaves the parameters of the model as they are.
RestoreNothing(net, snapshot) == net

RestoreSnapshot(net, snapshot) == [net EXCEPT !.weights = snapshot.weights]

\* predict(x, y) is forward(x, y): it reads the weights and biases (and the
\* fixed layer sizes) and nothing else, and is deterministic.  Its value is
\* kept symbolic: outputs are equal when parameters and input are.
predict(net, inputX, inputY) ==
    [weights |-> net.weights, inputX |-> inputX, inputY |-> inputY]

\* The outputs of the model over the sampled inputs.
Predictions(net) == [p \in Points |-> predict(net, p[1], p[2])]

\* Mutant: the snapshot refers to the arrays of the model.
SharingSnapshot(sh, index) == sh \cup {index}

\* createSnapshot copies every array (new Float64Array(w)): the snapshot
\* stored at index shares no storage with the model.
SharedAfterCreateSnapshot(sh, index) == sh

\* Mutant: the model takes over the arrays of the snapshot.
SharingRestore(sh, index) == {index}

\* restoreSnapshot assigns fresh copies of the snapshot's arrays to the
\* model, which then shares storage with no snapshot.
SharedAfterRestoreSnapshot(sh, index) == {}

\* train updates the model's arrays in place: a snapshot that shares their
\* storage holds the updated parameters w.
TrainedInPlace(snaps, sh, w) ==
    [i \in 1..Len(snaps) |->
        IF i \in sh THEN [snaps[i] EXCEPT !.weights = w] ELSE snaps[i]]

\* The rendering is a function of the parameters and of the resolution.
RenderToBuffer(net, width, height) ==
    [weights |-> net.weights, width |-> width, height |-> height]

----------------------------------------------------------------------------
(* calculateSnapshotMilestones *)

RECURSIVE Pow(_, _)
Pow(b, e) == IF e = 0 THEN 1 ELSE b * Pow(b, e - 1)

\* Math.floor(Math.pow(Math.pow(m, 1 / n), i)): the largest k with k^n <= m^i.
\* The sampled m are perfect n-th powers, for which the floating-point
\* computation is exact.
FloorRootPow(m, i, n) ==
    CHOOSE k \in 0..Pow(m, i) :
        /\ Pow(k, n) <= Pow(m, i)
        /\ Pow(k + 1, n) > Pow(m, i)

calculateSnapshotMilestones(maxIterations, frameCount) ==
    IF frameCount <= 2
    THEN <<0, maxIterations>>
    ELSE <<0>>
         \o [i \in 1..(frameCount - 2) |->
                FloorRootPow(maxIterations, i, frameCount - 2)]
         \o <<maxIterations>>

----------------------------------------------------------------------------
(* trainBatch and trainingLoop *)

\* The outcomes of the batchesPerFrame calls of trainBatch made by one
\* tick: the tick's mean loss and the parameters the model is left with.
\* Without an image trainBatch returns 0; with batchSize 0 it trains
\* nothing and returns 0/0; with a zero rate and zero velocities every
\* update is zero.  Otherwise the samples and hence the outcome are random.
TrainBatches(net) ==
    IF imageData = 0
    THEN {[loss |-> 0, weights |-> net.weights, velocities |-> net.velocities]}
    ELSE IF batchSize = 0
    THEN {[loss |-> NaN, weights |-> net.weights, velocities |-> net.velocities]}
    ELSE IF net.learningRate = 0 /\ net.velocities = 0
    THEN {[loss |-> l, weights |-> net.weights, velocities |-> 0] : l \in Losses}
    ELSE {[loss |-> l, weights |-> w, velocities |-> v] :
              l \in Losses, w \in Weights, v \in Velocities}

\* Mutant: the history is never shifted.
PushLossUnbounded(history, avgLoss) == Append(history, avgLoss)

\* lossHistory.push(avgLoss); if (length > LOSS_HISTORY_SIZE) shift()
PushLoss(history, avgLoss) ==
    LET pushed == Append(history, avgLoss)
    IN  IF Len(pushed) > LOSS_HISTORY_SIZE THEN Tail(pushed) ELSE pushed

\* Mutant: the improvement is taken relative to the newest loss.
RelativeToNewestBelow(oldLoss, newLoss) ==
    IF oldLoss = NaN \/ newLoss = NaN THEN FALSE
    ELSE IF newLoss = 0 THEN oldLoss = 0
    ELSE (oldLoss - newLoss) * DECAY_THRESHOLD_INV < newLoss

\* (oldLoss - newLoss) / oldLoss < DECAY_THRESHOLD in IEEE arithmetic:
\* a NaN operand or 0/0 compares false, -x/0 is -Infinity.
RelativeImprovementBelow(oldLoss, newLoss) ==
    IF oldLoss = NaN \/ newLoss = NaN THEN FALSE
    ELSE IF oldLoss = 0 THEN newLoss > 0
    ELSE (oldLoss - newLoss) * DECAY_THRESHOLD_INV < oldLoss

\* Mutant: the rate is not compared with the floor.
ShouldDecayIgnoringFloor(history, lr, floor) ==
    /\ Len(history) = LOSS_HISTORY_SIZE
    /\ RelativeImprovementBelow(history[1], history[LOSS_HISTORY_SIZE])

\* Mutant: the history need not be full.
ShouldDecayOnPartialHistory(history, lr, floor) ==
    /\ Len(history) >= 1
    /\ lr > floor
    /\ RelativeImprovementBelow(history[1], history[Len(history)])

ShouldDecay(history, lr, floor) ==
    /\ Len(history) = LOSS_HISTORY_SIZE
    /\ lr > floor
    /\ RelativeImprovementBelow(history[1], history[LOSS_HISTORY_SIZE])

\* Mutant: the decayed rate is not clamped.
DecayedRateUnclamped(lr, floor) == (lr * DECAY_FACTOR_PCT) \div 100

\* Math.max(minLearningRate, learningRate * DECAY_FACTOR)
DecayedRate(lr, floor) == Max(floor, (lr * DECAY_FACTOR_PCT) \div 100)

\* Mutant: a milestone is captured only when the counter hits it exactly.
ShouldCaptureOnExactHit(it) ==
    /\ captureSnapshotsEnabled
    /\ Len(snapshotMilestones) > 0
    /\ Len(snapshots) < Len(snapshotMilestones)
    /\ it = snapshotMilestones[Len(snapshots) + 1]

\* Mutant: a milestone is captured only once the counter has passed it.
ShouldCaptureStrictlyPast(it) ==
    /\ captureSnapshotsEnabled
    /\ Len(snapshotMilestones) > 0
    /\ Len(snapshots) < Len(snapshotMilestones)
    /\ it > snapshotMilestones[Len(snapshots) + 1]

\* Mutant: the check does not look at the capture switch.
ShouldCaptureIgnoringSwitch(it) ==
    /\ Len(snapshotMilestones) > 0
    /\ Len(snapshots) < Len(snapshotMilestones)
    /\ it >= snapshotMilestones[Len(snapshots) + 1]

\* Mutant: every tick captures while capture is enabled.
ShouldCaptureEveryTick(it) == captureSnapshotsEnabled

\* The snapshot check of a tick, at iteration it.
ShouldCapture(it) ==
    /\ captureSnapshotsEnabled
    /\ Len(snapshotMilestones) > 0
    /\ Len(snapshots) < Len(snapshotMilestones)
    /\ it >= snapshotMilestones[Len(snapshots) + 1]

\* new Uint8ClampedArray(...): the storage of the k-th buffer a handler run
\* allocates.  Storage is named by a positive number; an allocation yields
\* storage that the worker does not refer to already, so that the numbers
\* of one handler run are distinct from those in kept.
FreshStorage(k, kept) ==
    CHOOSE s \in 1..(k + Cardinality(kept)) :
        /\ s \notin kept
        /\ Cardinality({t \in 1..s : t \notin kept}) = k

\* The storage of the pixel buffers carried by a sequence of events.
StorageOf(events) ==
    UNION {IF events[i].type = "gifFrames"
           THEN {events[i].storages[k] : k \in 1..Len(events[i].storages)}
           ELSE IF events[i].type \in {"render", "snapshotRendered"}
           THEN {events[i].storage}
           ELSE {} : i \in 1..Len(events)}

\* Mutant: a mirrored frame is the forward frame itself, not a copy.
GifStoragesShared(n, kept) ==
    [k \in 1..n |-> FreshStorage(k, kept)]
    \o [j \in 1..Max(n - 2, 0) |-> FreshStorage(n - j, kept)]

\* The storage of the frames of a journey of n snapshots: renderToBuffer
\* allocates each forward frame, new Uint8ClampedArray(frames[i]) each
\* mirrored one.
GifStorages(n, kept) ==
    [k \in 1..n |-> FreshStorage(k, kept)]
    \o [j \in 1..Max(n - 2, 0) |-> FreshStorage(n + j, kept)]

ProgressEvent(it, avgLoss, lr) ==
    [type |-> "progress", iteration |-> it, loss |-> avgLoss, learningRate |-> lr]

SnapshotCapturedEvent(count, total) ==
    [type |-> "snapshotCaptured", count |-> count, total |-> total]

RenderEvent(net, storage) ==
    [type |-> "render", buffer |-> RenderToBuffer(net, imageWidth, imageHeight),
     storage |-> storage, width |-> imageWidth, height |-> imageHeight]

\* Mutant: the loop does not test the running flag.
LoopReturnsWithoutFlag(training, net) == ~net.present

\* if (!isTraining || !network) return
LoopReturns(training, net) == ~training \/ ~net.present

\* Mutant: the counter advances once per tick.
IterationOncePerTick(it) == it + 1

\* for (i < batchesPerFrame) { trainBatch(); iteration++ }
IterationAfterTick(it) == it + batchesPerFrame

\* Mutant: the request is not cleared.
RenderRequestKept(requested) == requested

\* if (renderRequested && network) renderRequested = false
RenderRequestedAfterTick(requested) == FALSE

\* Mutant: the tick does not reschedule itself.
TimersWithoutReschedule(pending) == pending

\* setTimeout(trainingLoop, 0)
TimersAfterTick(pending) == pending + 1

\* trainingLoop(), called with the running flag training, the model net,
\* pending timers still queued, the events pre already posted by the
\* calling handler and the snapshots sh that share the model's storage.
trainingLoop(training, net, pending, pre, sh) ==
    IF LoopReturns(training, net)
    THEN /\ isTraining' = training
         /\ network' = net
         /\ timers' = pending
         /\ posted' = pre
         /\ ticked' = FALSE
         /\ shared' = sh
         /\ UNCHANGED <<iteration, lossHistory, learningRate, snapshots,
                        renderRequested, taken, retained, budget>>
    ELSE /\ budget > 0
         /\ pending < MaxTimers
         /\ \E tb \in TrainBatches(net) :
              LET it == IterationAfterTick(iteration)
                  trained == [net EXCEPT !.weights = tb.weights,
                                         !.velocities = tb.velocities]
                  capture == ShouldCapture(it)
                  held == TrainedInPlace(snapshots, sh, tb.weights)
                  snaps == IF capture
                           THEN Append(held, CreateSnapshot(trained, it))
                           ELSE held
                  history == PushLoss(lossHistory, tb.loss)
                  decay == ShouldDecay(history, learningRate, minLearningRate)
                  lr == IF decay
                        THEN DecayedRate(learningRate, minLearningRate)
                        ELSE learningRate
                  net2 == IF decay THEN SetLearningRate(trained, lr) ELSE trained
              IN  /\ iteration' = it
                  /\ snapshots' = snaps
                  /\ shared' = IF capture
                               THEN SharedAfterCreateSnapshot(sh, Len(snaps))
                               ELSE sh
                  /\ taken' = IF capture
                              THEN Append(taken,
                                          [iteration |-> it,
                                           weights |-> tb.weights,
                                           predicted |-> Predictions(trained)])
                              ELSE taken
                  /\ lossHistory' = IF decay THEN <<>> ELSE history
                  /\ learningRate' = lr
                  /\ network' = net2
                  /\ renderRequested' = RenderRequestedAfterTick(renderRequested)
                  /\ posted' =
                       pre
                       \o (IF capture
                           THEN <<SnapshotCapturedEvent(Len(snaps),
                                                        Len(snapshotMilestones))>>
                           ELSE <<>>)
                       \o <<ProgressEvent(it, tb.loss, net2.learningRate)>>
                       \o (IF renderRequested
                           THEN <<RenderEvent(
                                      net2,
                                      FreshStorage(
                                          Cardinality(StorageOf(pre)) + 1,
                                          retained))>>
                           ELSE <<>>)
                  /\ isTraining' = training
                  /\ UNCHANGED retained
                  /\ timers' = TimersAfterTick(pending)
                  /\ ticked' = TRUE
                  /\ budget' = budget - 1

----------------------------------------------------------------------------
(* createNetwork and generateGifFrames *)

\* Mutant: the model is built at the rate the module starts with.
createNetworkAtStartRate(lr, m, w) == NewNetwork(StartLearningRate, m, w)

\* createNetwork(): a fresh model with weights w at the worker's current
\* learning rate lr and momentum m
createNetwork(lr, m, w) == NewNetwork(lr, m, w)

\* Mutant: the mirrored part repeats both endpoint frames.
GifFramesFullMirror(net, snaps, width, height) ==
    LET n == Len(snaps)
        forward == [k \in 1..n |->
                      RenderToBuffer(RestoreSnapshot(net, snaps[n + 1 - k]),
                                     width, height)]
    IN  forward \o [j \in 1..n |-> forward[n + 1 - j]]

\* The frames of the journey: one rendering per element of
\* [...snapshots].reverse(), then copies of frames[length - 2 .. 1].
GifFrames(net, snaps, width, height) ==
    LET n == Len(snaps)
        forward == [k \in 1..n |->
                      RenderToBuffer(RestoreSnapshot(net, snaps[n + 1 - k]),
                                     width, height)]
        mirrored == [j \in 1..Max(n - 2, 0) |-> forward[n - j]]
    IN  forward \o mirrored

\* The model after the restore loop of generateGifFrames: the snapshot
\* restored last stays in it.
AfterGifFrames(net, snaps) == RestoreSnapshot(net, snaps[1])

GifErrorEvent(message) == [type |-> "gifError", message |-> message]

GifFramesEvent(frames, width, height) ==
    [type |-> "gifFrames", frames |-> frames,
     storages |-> GifStorages(Len(snapshots), retained),
     width |-> width, height |-> height]

\* Mutant: the event is tagged with the worker's iteration counter.
SnapshotRenderedAtCounter(net, index, it) ==
    [type |-> "snapshotRendered",
     buffer |-> RenderToBuffer(net, imageWidth, imageHeight),
     storage |-> FreshStorage(1, retained),
     width |-> imageWidth, height |-> imageHeight,
     snapshotIndex |-> index, iteration |-> iteration]

SnapshotRenderedEvent(net, index, it) ==
    [type |-> "snapshotRendered",
     buffer |-> RenderToBuffer(net, imageWidth, imageHeight),
     storage |-> FreshStorage(1, retained),
     width |-> imageWidth, height |-> imageHeight,
     snapshotIndex |-> index, iteration |-> it]

----------------------------------------------------------------------------
(* NeuralNetwork.forward on numbers.  A number is a pair: <<"fin", n>> for *)
(* the finite value n, <<"inf", s>> for the infinity of sign s, and        *)
(* <<"nan", 0>>.  The finite values are integers small enough for every    *)
(* sum and product of a pass to be exact, so that the arithmetic below is  *)
(* that of the doubles they stand for (the sign of a zero is not kept).    *)

Fin(n) == <<"fin", n>>
PosInfinity == <<"inf", 1>>
NegInfinity == <<"inf", -1>>
NotANumber == <<"nan", 0>>

IsNotANumber(a) == a[1] = "nan"
IsFinite(a) == a[1] = "fin"

SignOf(a) == IF a[2] > 0 THEN 1 ELSE IF a[2] < 0 THEN -1 ELSE 0

\* a + b
Plus(a, b) ==
    IF IsNotANumber(a) \/ IsNotANumber(b) THEN NotANumber
    ELSE IF IsFinite(a) /\ IsFinite(b) THEN Fin(a[2] + b[2])
    ELSE IF IsFinite(a) THEN b
    ELSE IF IsFinite(b) THEN a
    ELSE IF a = b THEN a
    ELSE NotANumber

\* a * b
Times(a, b) ==
    IF IsNotANumber(a) \/ IsNotANumber(b) THEN NotANumber
    ELSE IF IsFinite(a) /\ IsFinite(b) THEN Fin(a[2] * b[2])
    ELSE IF SignOf(a) * SignOf(b) = 0 THEN NotANumber
    ELSE <<"inf", SignOf(a) * SignOf(b)>>

\* a > b, false when either is NaN
GreaterThan(a, b) ==
    /\ ~IsNotANumber(a)
    /\ ~IsNotANumber(b)
    /\ IF IsFinite(a) /\ IsFinite(b) THEN a[2] > b[2]
       ELSE IF IsFinite(a) THEN b = NegInfinity
       ELSE IF IsFinite(b) THEN a = PosInfinity
       ELSE a = PosInfinity /\ b = NegInfinity

\* Math.min and Math.max return NaN when an argument is NaN.
MathMin(a, b) ==
    IF IsNotANumber(a) \/ IsNotANumber(b) THEN NotANumber
    ELSE IF GreaterThan(a, b) THEN b ELSE a

MathMax(a, b) ==
    IF IsNotANumber(a) \/ IsNotANumber(b) THEN NotANumber
    ELSE IF GreaterThan(b, a) THEN b ELSE a

\* The activation of the last layer: Math.max(0, Math.min(1, sum)).
ClampOutput(sum) == MathMax(Fin(0), MathMin(Fin(1), sum))

\* The activation of a hidden layer: sum > 0 ? sum : 0.
Relu(sum) == IF GreaterThan(sum, Fin(0)) THEN sum ELSE Fin(0)

\* let sum = biases[j]; sum += weights[offset + k] * current[k], k ascending
RECURSIVE WeightedSum(_, _, _, _)
WeightedSum(bias, weights, current, k) ==
    IF k = 0 THEN bias
    ELSE Plus(WeightedSum(bias, weights, current, k - 1),
              Times(weights[k], current[k]))

\* The layer l of a pass: weights[l][j] is the row of unit j.
Layer(params, l, current) ==
    [j \in 1..Len(params.biases[l]) |->
        LET sum == WeightedSum(params.biases[l][j], params.weights[l][j],
                               current, Len(current))
        IN IF l = Len(params.weights) THEN ClampOutput(sum) ELSE Relu(sum)]

RECURSIVE ForwardFrom(_, _, _)
ForwardFrom(params, l, current) ==
    IF l > Len(params.weights) THEN current
    ELSE ForwardFrom(params, l + 1, Layer(params, l, current))

forward(params, inputX, inputY) == ForwardFrom(params, 1, <<inputX, inputY>>)

\* What a Uint8ClampedArray keeps of Math.round(c * 255): NaN is stored as
\* 0, and a value is clamped to 0..255.
ByteOf(c) ==
    IF IsNotANumber(c) THEN 0
    ELSE IF IsFinite(c)
    THEN (IF c[2] * 255 > 255 THEN 255 ELSE Max(c[2] * 255, 0))
    ELSE IF c = PosInfinity THEN 255 ELSE 0

\* renderToBuffer of the class on a width x height image, for the sizes at
\* which (x / width) * 2 - 1 is an integer: one <<r, g, b, 255>> per pixel,
\* row after row.
ProbeRenderToBuffer(params, width, height) ==
    [i \in 1..(width * height) |->
        LET x == (i - 1) % width
            y == (i - 1) \div width
            out == forward(params, Fin((2 * x) \div width - 1),
                           Fin((2 * y) \div height - 1))
        IN <<ByteOf(out[1]), ByteOf(out[2]), ByteOf(out[3]), 255>>]

\* The numbers sampled for parameters and for the arguments of predict.
ProbeParameterValues ==
    {Fin(-1), Fin(0), Fin(2), PosInfinity, NotANumber}

ProbeInputs == {Fin(-1), Fin(0), Fin(3), PosInfinity}

\* Parameter states of a network of layer sizes 2, 1, 3 (a Float64Array
\* holds any double, NaN and the infinities included).
ProbeParameters ==
    {[weights |-> << << <<a, Fin(1)>> >>,
                     << <<c>>, <<Fin(1)>>, <<Fin(-1)>> >> >>,
      biases  |-> << <<b>>, <<Fin(0), d, Fin(1)>> >>,
      velocities |-> <<Fin(0), Fin(1)>>] :
        a \in ProbeParameterValues, c \in ProbeParameterValues,
        b \in {Fin(0), NotANumber}, d \in {Fin(0), Fin(-1)}}

\* Nothing is under test on its own in the specifications of the worker.
NoProbe == [parameters |-> <<>>, called |-> "none", args |-> <<>>,
            output |-> <<>>]

\* predict(inputX, inputY) on the network under test
ProbePredict ==
    /\ probe.called \in {"constructor", "predict", "renderToBuffer"}
    /\ \E inputX \in ProbeInputs, inputY \in ProbeInputs :
         probe' = [parameters |-> probe.parameters,
                   called |-> "predict",
                   args |-> <<inputX, inputY>>,
                   output |-> forward(probe.parameters, inputX, inputY)]
    /\ UNCHANGED <<network, imageData, imageWidth, imageHeight, isTraining,
                   iteration, batchSize, renderRequested, initialLearningRate,
                   learningRate, momentum, minLearningRate, lossHistory,
                   snapshots, captureSnapshotsEnabled, snapshotMilestones,
                   gifFrameCount, timers, posted, last, shared, taken,
                   retained, ticked, budget, commands>>

\* renderToBuffer(2, 2) on the network under test
ProbeRender ==
    /\ probe.called \in {"constructor", "predict", "renderToBuffer"}
    /\ probe' = [parameters |-> probe.parameters,
                 called |-> "renderToBuffer",
                 args |-> <<2, 2>>,
                 output |-> ProbeRenderToBuffer(probe.parameters, 2, 2)]
    /\ UNCHANGED <<network, imageData, imageWidth, imageHeight, isTraining,
                   iteration, batchSize, renderRequested, initialLearningRate,
                   learningRate, momentum, minLearningRate, lossHistory,
                   snapshots, captureSnapshotsEnabled, snapshotMilestones,
                   gifFrameCount, timers, posted, last, shared, taken,
                   retained, ticked, budget, commands>>

----------------------------------------------------------------------------
(* State after the module is loaded *)

Init ==
    /\ network = NullNetwork
    /\ imageData = 0
    /\ imageWidth = 0
    /\ imageHeight = 0
    /\ isTraining = FALSE
    /\ iteration = 0
    /\ batchSize = DefaultBatchSize
    /\ renderRequested = FALSE
    /\ initialLearningRate = StartLearningRate
    /\ learningRate = StartLearningRate
    /\ momentum = DefaultMomentum
    /\ minLearningRate = DefaultMinLearningRate
    /\ lossHistory = <<>>
    /\ snapshots = <<>>
    /\ captureSnapshotsEnabled = FALSE
    /\ snapshotMilestones = <<>>
    /\ gifFrameCount = DefaultFrameCount
    /\ timers = 0
    /\ posted = <<>>
    /\ last = [type |-> "none"]
    /\ shared = {}
    /\ taken = <<>>
    /\ retained = {}
    /\ probe = NoProbe
    /\ ticked = FALSE
    /\ budget = MaxTicks
    /\ commands = MaxCommands

----------------------------------------------------------------------------
(* self.onmessage, one action per case, and the timer callback *)

HandleInit ==
    /\ commands > 0
    /\ commands' = commands - 1
    /\ UNCHANGED <<retained, probe>>
    /\ \E data \in InitArgs, img \in Images, w \in Weights :
        /\ initialLearningRate' = data.learningRate
        /\ learningRate' = data.learningRate
        /\ momentum' = Nullish(data.momentum, DefaultMomentum)
        /\ batchSize' = Nullish(data.batchSize, DefaultBatchSize)
        /\ minLearningRate' = Nullish(data.minLearningRate, DefaultMinLearningRate)
        /\ network' = createNetwork(data.learningRate,
                                    Nullish(data.momentum, DefaultMomentum), w)
        /\ imageData' = img.data
        /\ imageWidth' = img.width
        /\ imageHeight' = img.height
        /\ iteration' = 0
        /\ isTraining' = FALSE
        /\ lossHistory' = <<>>
        /\ posted' = <<[type |-> "ready"]>>
        /\ last' = [type |-> "init", learningRate |-> data.learningRate,
                    momentum |-> data.momentum, batchSize |-> data.batchSize,
                    minLearningRate |-> data.minLearningRate, image |-> img]
        /\ ticked' = FALSE
        /\ shared' = {}
        /\ UNCHANGED <<renderRequested, snapshots, captureSnapshotsEnabled,
                       snapshotMilestones, gifFrameCount, timers, taken,
                       budget>>

HandleStart ==
    /\ commands > 0
    /\ commands' = commands - 1
    /\ UNCHANGED probe
    /\ trainingLoop(TRUE, network, timers, <<>>, shared)
    /\ last' = [type |-> "start"]
    /\ UNCHANGED <<imageData, imageWidth, imageHeight, batchSize,
                   initialLearningRate, momentum, minLearningRate,
                   captureSnapshotsEnabled, snapshotMilestones, gifFrameCount>>

HandleStop ==
    /\ commands > 0
    /\ commands' = commands - 1
    /\ UNCHANGED <<retained, probe>>
    /\ isTraining' = FALSE
    /\ posted' = <<>>
    /\ last' = [type |-> "stop"]
    /\ ticked' = FALSE
    /\ UNCHANGED <<network, imageData, imageWidth, imageHeight, iteration,
                   batchSize, renderRequested, initialLearningRate,
                   learningRate, momentum, minLearningRate, lossHistory,
                   snapshots, captureSnapshotsEnabled, snapshotMilestones,
                   gifFrameCount, timers, shared, taken, budget>>

HandleRender ==
    /\ commands > 0
    /\ commands' = commands - 1
    /\ UNCHANGED <<retained, probe>>
    /\ renderRequested' = TRUE
    /\ posted' = <<>>
    /\ last' = [type |-> "render"]
    /\ ticked' = FALSE
    /\ UNCHANGED <<network, imageData, imageWidth, imageHeight, isTraining,
                   iteration, batchSize, initialLearningRate, learningRate,
                   momentum, minLearningRate, lossHistory, snapshots,
                   captureSnapshotsEnabled, snapshotMilestones, gifFrameCount,
                   timers, shared, taken, budget>>

HandleSetLearningRate ==
    /\ commands > 0
    /\ commands' = commands - 1
    /\ UNCHANGED <<retained, probe>>
    /\ \E lr \in LearningRates :
        /\ learningRate' = lr
        /\ network' = IF network.present THEN SetLearningRate(network, lr)
                      ELSE network
        /\ posted' = <<>>
        /\ last' = [type |-> "setLearningRate"]
        /\ ticked' = FALSE
        /\ UNCHANGED <<imageData, imageWidth, imageHeight, isTraining,
                       iteration, batchSize, renderRequested,
                       initialLearningRate, momentum, minLearningRate,
                       lossHistory, snapshots, captureSnapshotsEnabled,
                       snapshotMilestones, gifFrameCount, timers, shared,
                       taken, budget>>

HandleSetMomentum ==
    /\ commands > 0
    /\ commands' = commands - 1
    /\ UNCHANGED <<retained, probe>>
    /\ \E m \in Momenta :
        /\ momentum' = m
        /\ network' = IF network.present THEN SetMomentum(network, m)
                      ELSE network
        /\ posted' = <<>>
        /\ last' = [type |-> "setMomentum"]
        /\ ticked' = FALSE
        /\ UNCHANGED <<imageData, imageWidth, imageHeight, isTraining,
                       iteration, batchSize, renderRequested,
                       initialLearningRate, learningRate, minLearningRate,
                       lossHistory, snapshots, captureSnapshotsEnabled,
                       snapshotMilestones, gifFrameCount, timers, shared,
                       taken, budget>>

HandleSetBatchSize ==
    /\ commands > 0
    /\ commands' = commands - 1
    /\ UNCHANGED <<retained, probe>>
    /\ \E bs \in BatchSizes :
        /\ batchSize' = bs
        /\ posted' = <<>>
        /\ last' = [type |-> "setBatchSize"]
        /\ ticked' = FALSE
        /\ UNCHANGED <<network, imageData, imageWidth, imageHeight, isTraining,
                       iteration, renderRequested, initialLearningRate,
                       learningRate, momentum, minLearningRate, lossHistory,
                       snapshots, captureSnapshotsEnabled, snapshotMilestones,
                       gifFrameCount, timers, shared, taken, budget>>

\* Mutant: a reset without a rate keeps the current rate.
ResetRateFromCurrent(given, initial, current) == Nullish(given, current)

\* learningRate = data.learningRate ?? initialLearningRate
ResetRate(given, initial, current) == Nullish(given, initial)

HandleReset ==
    /\ commands > 0
    /\ commands' = commands - 1
    /\ UNCHANGED <<retained, probe>>
    /\ \E data \in ResetArgs, w \in Weights :
        /\ isTraining' = FALSE
        /\ iteration' = 0
        /\ learningRate' = ResetRate(data.learningRate, initialLearningRate,
                                     learningRate)
        /\ initialLearningRate' = ResetRate(data.learningRate,
                                            initialLearningRate, learningRate)
        /\ momentum' = Nullish(data.momentum, momentum)
        /\ lossHistory' = <<>>
        /\ network' = createNetwork(ResetRate(data.learningRate,
                                              initialLearningRate,
                                              learningRate),
                                    Nullish(data.momentum, momentum), w)
        /\ posted' = <<[type |-> "reset"]>>
        /\ last' = [type |-> "reset", learningRate |-> data.learningRate,
                    momentum |-> data.momentum]
        /\ ticked' = FALSE
        /\ shared' = {}
        /\ UNCHANGED <<imageData, imageWidth, imageHeight, batchSize,
                       renderRequested, minLearningRate, snapshots,
                       captureSnapshotsEnabled, snapshotMilestones,
                       gifFrameCount, timers, taken, budget>>

\* Mutant: the snapshots held before are kept.
SnapshotsKeptOnEnable(held, net, it) ==
    IF net.present THEN Append(held, CreateSnapshot(net, it)) ELSE held

\* snapshots = []; if (network) snapshots.push(network.createSnapshot(iteration))
SnapshotsOnEnable(held, net, it) ==
    IF net.present THEN <<CreateSnapshot(net, it)>> ELSE <<>>

HandleEnableSnapshotCapture ==
    /\ commands > 0
    /\ commands' = commands - 1
    /\ UNCHANGED <<retained, probe>>
    /\ \E maxIterations \in MaxIterationsArgs, frameCount \in FrameCountArgs :
        LET fc == OrDefault(frameCount, DefaultFrameCount)
            ms == calculateSnapshotMilestones(
                      OrDefault(maxIterations, DefaultMaxIterations), fc)
        IN  /\ captureSnapshotsEnabled' = TRUE
            /\ gifFrameCount' = fc
            /\ snapshotMilestones' = ms
            /\ snapshots' = SnapshotsOnEnable(snapshots, network, iteration)
            /\ shared' = IF network.present
                         THEN SharedAfterCreateSnapshot(
                                  {}, Len(SnapshotsOnEnable(snapshots, network,
                                                            iteration)))
                         ELSE {}
            /\ taken' = IF network.present
                        THEN <<[iteration |-> iteration,
                                weights |-> network.weights,
                                predicted |-> Predictions(network)]>>
                        ELSE <<>>
            /\ posted' = IF network.present
                         THEN <<SnapshotCapturedEvent(
                                    Len(SnapshotsOnEnable(snapshots, network,
                                                          iteration)),
                                    Len(ms))>>
                         ELSE <<>>
            /\ last' = [type |-> "enableSnapshotCapture",
                        maxIterations |-> maxIterations,
                        frameCount |-> frameCount]
            /\ ticked' = FALSE
            /\ UNCHANGED <<network, imageData, imageWidth, imageHeight,
                           isTraining, iteration, batchSize, renderRequested,
                           initialLearningRate, learningRate, momentum,
                           minLearningRate, lossHistory, timers, budget>>

HandleDisableSnapshotCapture ==
    /\ commands > 0
    /\ commands' = commands - 1
    /\ UNCHANGED <<retained, probe>>
    /\ captureSnapshotsEnabled' = FALSE
    /\ snapshots' = <<>>
    /\ shared' = {}
    /\ taken' = <<>>
    /\ posted' = <<>>
    /\ last' = [type |-> "disableSnapshotCapture"]
    /\ ticked' = FALSE
    /\ UNCHANGED <<network, imageData, imageWidth, imageHeight, isTraining,
                   iteration, batchSize, renderRequested, initialLearningRate,
                   learningRate, momentum, minLearningRate, lossHistory,
                   snapshotMilestones, gifFrameCount, timers, budget>>

\* Mutant: the path without an image restores the running flag.
FlagRestoredWithoutImage(wasTraining) == wasTraining

\* isTraining = false; if (!imageData) { postMessage(gifError); break }
FlagWithoutImage(wasTraining) == FALSE

HandleGenerateGif ==
    /\ commands > 0
    /\ commands' = commands - 1
    /\ UNCHANGED probe
    /\ last' = [type |-> "generateGif"]
    /\ UNCHANGED <<imageData, imageWidth, imageHeight, batchSize,
                   initialLearningRate, momentum, minLearningRate,
                   captureSnapshotsEnabled, snapshotMilestones, gifFrameCount>>
    /\ IF imageData = 0
       THEN trainingLoop(FlagWithoutImage(isTraining), network, timers,
                         <<GifErrorEvent("No image data available")>>, shared)
       ELSE IF ~network.present
       THEN trainingLoop(isTraining, network, timers,
                         <<GifErrorEvent("Network not initialized")>>, shared)
       ELSE IF Len(snapshots) = 0
       THEN trainingLoop(isTraining, network, timers,
                         <<GifErrorEvent("No snapshots captured")>>, shared)
       ELSE trainingLoop(isTraining, AfterGifFrames(network, snapshots), timers,
                         <<GifFramesEvent(GifFrames(network, snapshots,
                                                    imageWidth, imageHeight),
                                          imageWidth, imageHeight)>>,
                         SharedAfterRestoreSnapshot(shared, 1))

HandleRenderSnapshot ==
    /\ commands > 0
    /\ commands' = commands - 1
    /\ UNCHANGED <<retained, probe>>
    /\ \E snapshotIndex \in SnapshotIndexes :
        /\ IF ~network.present \/ snapshotIndex + 1 \notin DOMAIN snapshots
           THEN /\ posted' = <<>>
                /\ UNCHANGED <<network, shared>>
           ELSE LET snapshot == snapshots[snapshotIndex + 1]
                    restored == RestoreSnapshot(network, snapshot)
                IN  /\ network' = restored
                    /\ shared' = SharedAfterRestoreSnapshot(shared,
                                                            snapshotIndex + 1)
                    /\ posted' = <<SnapshotRenderedEvent(restored, snapshotIndex,
                                                         snapshot.iteration)>>
        /\ last' = [type |-> "renderSnapshot", snapshotIndex |-> snapshotIndex]
        /\ ticked' = FALSE
        /\ UNCHANGED <<imageData, imageWidth, imageHeight, isTraining,
                       iteration, batchSize, renderRequested,
                       initialLearningRate, learningRate, momentum,
                       minLearningRate, lossHistory, snapshots,
                       captureSnapshotsEnabled, snapshotMilestones,
                       gifFrameCount, timers, taken, budget>>

\* A pending setTimeout(trainingLoop, 0) callback runs.
TimerFires ==
    /\ UNCHANGED <<commands, probe>>
    /\ timers > 0
    /\ trainingLoop(isTraining, network, timers - 1, <<>>, shared)
    /\ last' = [type |-> "timer"]
    /\ UNCHANGED <<imageData, imageWidth, imageHeight, batchSize,
                   initialLearningRate, momentum, minLearningRate,
                   captureSnapshotsEnabled, snapshotMilestones, gifFrameCount>>

Next ==
    \/ HandleInit
    \/ HandleStart
    \/ HandleStop
    \/ HandleRender
    \/ HandleSetLearningRate
    \/ HandleSetMomentum
    \/ HandleSetBatchSize
    \/ HandleReset
    \/ HandleEnableSnapshotCapture
    \/ HandleDisableSnapshotCapture
    \/ HandleGenerateGif
    \/ HandleRenderSnapshot
    \/ TimerFires

Spec == Init /\ [][Next]_vars

\* The event loop runs every pending timer callback.
SpecFair == Init /\ [][Next]_vars /\ WF_vars(TimerFires)

----------------------------------------------------------------------------
(* The worker in the middle of a run: after init(data), start and          *)
(* WarmTicks - 1 further timer callbacks that trained.  None of them could *)
(* decay the rate, because the loss history was never full.  The history   *)
(* holds WarmTicks losses: the oldest one and WarmTicks - 1 equal later     *)
(* ones.                                                                   *)

WarmTicks == LOSS_HISTORY_SIZE - 1

\* The init messages after which the ticks train.
WarmArgs == {data \in InitArgs : Nullish(data.batchSize, DefaultBatchSize) > 0}

InitWarm ==
    \E data \in WarmArgs, img \in Images, w \in Weights :
      \E oldest \in Losses, later \in Losses :
        /\ network = [createNetwork(data.learningRate,
                                    Nullish(data.momentum, DefaultMomentum), w)
                        EXCEPT !.velocities = 1]
        /\ imageData = img.data
        /\ imageWidth = img.width
        /\ imageHeight = img.height
        /\ isTraining = TRUE
        /\ iteration = WarmTicks * batchesPerFrame
        /\ batchSize = Nullish(data.batchSize, DefaultBatchSize)
        /\ renderRequested = FALSE
        /\ initialLearningRate = data.learningRate
        /\ learningRate = data.learningRate
        /\ momentum = Nullish(data.momentum, DefaultMomentum)
        /\ minLearningRate = Nullish(data.minLearningRate, DefaultMinLearningRate)
        /\ lossHistory = <<oldest>> \o [i \in 1..(WarmTicks - 1) |-> later]
        /\ snapshots = <<>>
        /\ captureSnapshotsEnabled = FALSE
        /\ snapshotMilestones = <<>>
        /\ gifFrameCount = DefaultFrameCount
        /\ timers = 1
        /\ posted = <<ProgressEvent(WarmTicks * batchesPerFrame, later,
                                    data.learningRate)>>
        /\ last = [type |-> "timer"]
        /\ shared = {}
        /\ taken = <<>>
        /\ retained = {}
        /\ probe = NoProbe
        /\ ticked = TRUE
        /\ budget = MaxTicks
        /\ commands = MaxWarmCommands

SpecWarm == InitWarm /\ [][Next]_vars

----------------------------------------------------------------------------
(* The worker at the beginning of a capture session: after init(data) and  *)
(* enableSnapshotCapture(maxIterations, frameCount) with no training in    *)
(* between.  The snapshot of iteration 0 is held and its event was posted. *)

CaptureMaxIterations == 100
CaptureFrameCounts == {3, 4}

\* The init message of the session: only the rate is given.
CaptureArgs == {data \in InitArgs :
                   /\ data.learningRate = StartLearningRate
                   /\ data.momentum = <<>>}

InitCapture ==
    \E data \in CaptureArgs, img \in Images, w \in {1} :
      \E frameCount \in CaptureFrameCounts :
        LET net == createNetwork(data.learningRate,
                                 Nullish(data.momentum, DefaultMomentum), w)
            ms == calculateSnapshotMilestones(CaptureMaxIterations, frameCount)
        IN  /\ network = net
            /\ imageData = img.data
            /\ imageWidth = img.width
            /\ imageHeight = img.height
            /\ isTraining = FALSE
            /\ iteration = 0
            /\ batchSize = Nullish(data.batchSize, DefaultBatchSize)
            /\ renderRequested = FALSE
            /\ initialLearningRate = data.learningRate
            /\ learningRate = data.learningRate
            /\ momentum = Nullish(data.momentum, DefaultMomentum)
            /\ minLearningRate = Nullish(data.minLearningRate,
                                         DefaultMinLearningRate)
            /\ lossHistory = <<>>
            /\ snapshots = SnapshotsOnEnable(<<>>, net, 0)
            /\ captureSnapshotsEnabled = TRUE
            /\ snapshotMilestones = ms
            /\ gifFrameCount = frameCount
            /\ timers = 0
            /\ posted = <<SnapshotCapturedEvent(1, Len(ms))>>
            /\ last = [type |-> "enableSnapshotCapture",
                       maxIterations |-> <<CaptureMaxIterations>>,
                       frameCount |-> <<frameCount>>]
            /\ shared = SharedAfterCreateSnapshot({}, 1)
            /\ taken = <<[iteration |-> 0, weights |-> net.weights,
                          predicted |-> Predictions(net)]>>
            /\ retained = {}
            /\ probe = NoProbe
            /\ ticked = FALSE
            /\ budget = MaxCaptureTicks
            /\ commands = MaxCaptureCommands

SpecCapture == InitCapture /\ [][Next]_vars

----------------------------------------------------------------------------
(* The NeuralNetwork class on its own: a network in one of the sampled     *)
(* parameter states, on which predict and renderToBuffer are called.  The  *)
(* worker is as loaded and receives no message.                            *)

InitForward ==
    /\ network = NullNetwork
    /\ imageData = 0
    /\ imageWidth = 0
    /\ imageHeight = 0
    /\ isTraining = FALSE
    /\ iteration = 0
    /\ batchSize = DefaultBatchSize
    /\ renderRequested = FALSE
    /\ initialLearningRate = StartLearningRate
    /\ learningRate = StartLearningRate
    /\ momentum = DefaultMomentum
    /\ minLearningRate = DefaultMinLearningRate
    /\ lossHistory = <<>>
    /\ snapshots = <<>>
    /\ captureSnapshotsEnabled = FALSE
    /\ snapshotMilestones = <<>>
    /\ gifFrameCount = DefaultFrameCount
    /\ timers = 0
    /\ posted = <<>>
    /\ last = [type |-> "none"]
    /\ shared = {}
    /\ taken = <<>>
    /\ retained = {}
    /\ probe \in {[parameters |-> params, called |-> "constructor",
                   args |-> <<>>, output |-> <<>>] :
                      params \in ProbeParameters}
    /\ ticked = FALSE
    /\ budget = 0
    /\ commands = 0

NextForward ==
    \/ ProbePredict
    \/ ProbeRender

SpecForward == InitForward /\ [][NextForward]_vars

----------------------------------------------------------------------------
(* trainBatch and the average of trainingLoop on numbers.  A number is a   *)
(* fraction <<n, d>>; <<0, 0>> is the NaN that 0 / 0 yields.  The batch    *)
(* size is a fraction as well: the worker stores whatever number the       *)
(* message carries.                                                        *)

\* a / b on fractions, the divisor of the result made non-negative; a zero
\* keeps no sign.
Quotient(a, b) ==
    LET n == a[1] * b[2]
        d == a[2] * b[1]
    IN IF d < 0 THEN <<0 - n, 0 - d>>
       ELSE IF n = 0 /\ d > 0 THEN <<0, 1>>
       ELSE <<n, d>>

\* a + b on fractions; NaN + b is NaN.
Sum(a, b) ==
    IF a[2] = 0 \/ b[2] = 0 THEN <<0, 0>>
    ELSE IF a[2] = b[2] THEN <<a[1] + b[1], a[2]>>
    ELSE <<a[1] * b[2] + b[1] * a[2], a[2] * b[2]>>

\* for (let b = 0; b < batchSize; b++): the number of passes of the loop
RECURSIVE PassesFrom(_, _)
PassesFrom(b, size) ==
    IF b * size[2] < size[1] THEN PassesFrom(b + 1, size) ELSE b

Passes(size) == PassesFrom(0, size)

\* totalLoss after b passes of the loop of trainBatch: losses[b] is what
\* network.train returns for the b-th sample.
RECURSIVE BatchTotal(_, _)
BatchTotal(losses, b) ==
    IF b = 0 THEN <<0, 1>>
    ELSE LET totalLoss == BatchTotal(losses, b - 1)
         IN Sum(totalLoss, <<losses[b], 1>>)

\* trainBatch with a model and an image: totalLoss / batchSize
trainBatch(size, losses) ==
    LET totalLoss == BatchTotal(losses, Passes(size))
    IN Quotient(totalLoss, size)

\* for (i < batchesPerFrame) totalLoss += trainBatch(), from the i-th call
\* of trainBatch on: the odd calls train samples of losses odd, the even
\* calls samples of losses even.  A total that is NaN stays NaN.
RECURSIVE TotalLoss(_, _, _, _, _)
TotalLoss(i, totalLoss, size, odd, even) ==
    IF i > batchesPerFrame THEN totalLoss
    ELSE LET next == Sum(totalLoss,
                         trainBatch(size, IF i % 2 = 1 THEN odd ELSE even))
         IN IF next[2] = 0 THEN next
            ELSE TotalLoss(i + 1, next, size, odd, even)

\* avgLoss = totalLoss / batchesPerFrame
AverageLoss(size, odd, even) ==
    LET totalLoss == TotalLoss(1, <<0, 1>>, size, odd, even)
    IN Quotient(totalLoss, <<batchesPerFrame, 1>>)

\* The batch sizes sampled: -1, 0, 1, 1.5, 2, 2.5 and 3.
ProbeBatchSizes ==
    {<<-1, 1>>, <<0, 1>>, <<1, 1>>, <<3, 2>>, <<2, 1>>, <<5, 2>>, <<3, 1>>}

\* The losses network.train returns for a sample.
SampleLosses == {0, 3}

\* case "setBatchSize": batchSize = data.batchSize
ProbeSetBatchSize ==
    /\ probe.called \in {"init", "setBatchSize", "trainingLoop"}
    /\ \E size \in ProbeBatchSizes :
         probe' = [parameters |-> size, called |-> "setBatchSize",
                   args |-> <<size>>, output |-> <<>>]
    /\ UNCHANGED <<network, imageData, imageWidth, imageHeight, isTraining,
                   iteration, batchSize, renderRequested, initialLearningRate,
                   learningRate, momentum, minLearningRate, lossHistory,
                   snapshots, captureSnapshotsEnabled, snapshotMilestones,
                   gifFrameCount, timers, posted, last, shared, taken,
                   retained, ticked, budget, commands>>

\* One tick of trainingLoop with a model and an image, up to avgLoss: the
\* output is avgLoss, and the per-sample losses of an odd and an even batch.
ProbeTrainingLoop ==
    /\ probe.called \in {"init", "setBatchSize", "trainingLoop"}
    /\ LET n == Passes(probe.parameters)
       IN \E odd \in [1..n -> SampleLosses], even \in [1..n -> SampleLosses] :
            probe' = [parameters |-> probe.parameters,
                      called |-> "trainingLoop",
                      args |-> <<odd, even>>,
                      output |-> <<AverageLoss(probe.parameters, odd, even)>>]
    /\ UNCHANGED <<network, imageData, imageWidth, imageHeight, isTraining,
                   iteration, batchSize, renderRequested, initialLearningRate,
                   learningRate, momentum, minLearningRate, lossHistory,
                   snapshots, captureSnapshotsEnabled, snapshotMilestones,
                   gifFrameCount, timers, posted, last, shared, taken,
                   retained, ticked, budget, commands>>

\* The worker after an init that gives the batch size (batchSize =
\* data.batchSize ?? 5), with a model and an image, and no message but
\* setBatchSize.
InitBatch ==
    /\ network = NullNetwork
    /\ imageData = 0
    /\ imageWidth = 0
    /\ imageHeight = 0
    /\ isTraining = FALSE
    /\ iteration = 0
    /\ batchSize = DefaultBatchSize
    /\ renderRequested = FALSE
    /\ initialLearningRate = StartLearningRate
    /\ learningRate = StartLearningRate
    /\ momentum = DefaultMomentum
    /\ minLearningRate = DefaultMinLearningRate
    /\ lossHistory = <<>>
    /\ snapshots = <<>>
    /\ captureSnapshotsEnabled = FALSE
    /\ snapshotMilestones = <<>>
    /\ gifFrameCount = DefaultFrameCount
    /\ timers = 0
    /\ posted = <<>>
    /\ last = [type |-> "none"]
    /\ shared = {}
    /\ taken = <<>>
    /\ retained = {}
    /\ probe \in {[parameters |-> size, called |-> "init",
                   args |-> <<size>>, output |-> <<>>] :
                      size \in ProbeBatchSizes}
    /\ ticked = FALSE
    /\ budget = 0
    /\ commands = 0

NextBatch ==
    \/ ProbeSetBatchSize
    \/ ProbeTrainingLoop

SpecBatch == InitBatch /\ [][NextBatch]_vars

----------------------------------------------------------------------------
(* The GIF encoder worker: self.onmessage for an encode message.  A        *)
(* request is the number of frames it carries, and what became of the      *)
(* promise of encode(); a message posted carries the request it belongs    *)
(* to, which is not part of the message itself.                            *)

\* The requests the worker has received in a run.
MaxRequests == 2

\* frames.length of the requests sampled.
FrameListLengths == {0, 1, 10, 11, 12, 21}

\* Mutant: progress is reported for every tenth frame only.
ReportsProgressOnTenths(index, length) == index % 10 = 0

\* index % 10 === 0 || index === frames.length - 1
ReportsProgress(index, length) == index % 10 = 0 \/ index = length - 1

\* The progress messages posted by frames.map, index ascending.
RECURSIVE ProgressMessages(_, _, _)
ProgressMessages(request, index, length) ==
    IF index >= length THEN <<>>
    ELSE (IF ReportsProgress(index, length)
          THEN <<[request |-> request, type |-> "progress",
                  current |-> index + 1, total |-> length]>>
          ELSE <<>>)
         \o ProgressMessages(request, index + 1, length)

CompleteMessage(request) ==
    [request |-> request, type |-> "complete", current |-> 0, total |-> 0]

ErrorMessage(request) ==
    [request |-> request, type |-> "error", current |-> 0, total |-> 0]

\* An encode message arrives: frames.map posts the progress messages, then
\* encode() is called.  It throws at once, and the catch clause posts
\* error, or it returns a promise the handler awaits.
HandleEncode ==
    /\ probe.called \in {"load", "encode", "settle"}
    /\ Len(probe.args) < MaxRequests
    /\ \E length \in FrameListLengths, thrown \in BOOLEAN :
         LET request == Len(probe.args) + 1
         IN probe' = [parameters |-> <<>>,
                      called |-> "encode",
                      args |-> Append(probe.args,
                                      [length |-> length,
                                       pending |-> ~thrown]),
                      output |-> probe.output
                                 \o ProgressMessages(request, 0, length)
                                 \o (IF thrown THEN <<ErrorMessage(request)>>
                                     ELSE <<>>)]
    /\ UNCHANGED <<network, imageData, imageWidth, imageHeight, isTraining,
                   iteration, batchSize, renderRequested, initialLearningRate,
                   learningRate, momentum, minLearningRate, lossHistory,
                   snapshots, captureSnapshotsEnabled, snapshotMilestones,
                   gifFrameCount, timers, posted, last, shared, taken,
                   retained, ticked, budget, commands>>

\* The promise of encode() settles and the handler resumes after await:
\* complete is posted when it is fulfilled, error when it is rejected.
EncodeSettles ==
    /\ probe.called \in {"encode", "settle"}
    /\ \E request \in 1..Len(probe.args), fulfilled \in BOOLEAN :
         /\ probe.args[request].pending
         /\ probe' = [parameters |-> <<>>,
                      called |-> "settle",
                      args |-> [probe.args EXCEPT ![request].pending = FALSE],
                      output |-> Append(probe.output,
                                        IF fulfilled
                                        THEN CompleteMessage(request)
                                        ELSE ErrorMessage(request))]
    /\ UNCHANGED <<network, imageData, imageWidth, imageHeight, isTraining,
                   iteration, batchSize, renderRequested, initialLearningRate,
                   learningRate, momentum, minLearningRate, lossHistory,
                   snapshots, captureSnapshotsEnabled, snapshotMilestones,
                   gifFrameCount, timers, posted, last, shared, taken,
                   retained, ticked, budget, commands>>

\* The encoder worker after its script is loaded.
InitEncode ==
    /\ network = NullNetwork
    /\ imageData = 0
    /\ imageWidth = 0
    /\ imageHeight = 0
    /\ isTraining = FALSE
    /\ iteration = 0
    /\ batchSize = DefaultBatchSize
    /\ renderRequested = FALSE
    /\ initialLearningRate = StartLearningRate
    /\ learningRate = StartLearningRate
    /\ momentum = DefaultMomentum
    /\ minLearningRate = DefaultMinLearningRate
    /\ lossHistory = <<>>
    /\ snapshots = <<>>
    /\ captureSnapshotsEnabled = FALSE
    /\ snapshotMilestones = <<>>
    /\ gifFrameCount = DefaultFrameCount
    /\ timers = 0
    /\ posted = <<>>
    /\ last = [type |-> "none"]
    /\ shared = {}
    /\ taken = <<>>
    /\ retained = {}
    /\ probe = [parameters |-> <<>>, called |-> "load", args |-> <<>>,
                output |-> <<>>]
    /\ ticked = FALSE
    /\ budget = 0
    /\ commands = 0

NextEncode ==
    \/ HandleEncode
    \/ EncodeSettles

SpecEncode == InitEncode /\ [][NextEncode]_vars

----------------------------------------------------------------------------
(* calculateSnapshotMilestones as gif-utils exports it, and the two        *)
(* functions of that name called on their own.                             *)

\* Mutant: the exported function omits the closing milestone.
MilestonesWithoutLast(maxIterations, frameCount) ==
    IF frameCount <= 2
    THEN <<0, maxIterations>>
    ELSE <<0>>
         \o [i \in 1..(frameCount - 2) |->
                FloorRootPow(maxIterations, i, frameCount - 2)]

\* calculateSnapshotMilestones of gif-utils
calculateSnapshotMilestonesExported(maxIterations, frameCount) ==
    IF frameCount <= 2
    THEN <<0, maxIterations>>
    ELSE <<0>>
         \o [i \in 1..(frameCount - 2) |->
                FloorRootPow(maxIterations, i, frameCount - 2)]
         \o <<maxIterations>>

\* The arguments sampled: frame counts -1 to 5, and iteration counts that
\* are perfect (frameCount - 2)-th powers when frameCount > 3.
MilestoneArgs ==
    {args \in {0, 1, 8, 27, 64, 100} \X (-1..5) :
        \/ args[2] <= 3
        \/ \E k \in 0..args[1] : Pow(k, args[2] - 2) = args[1]}

\* The worker's calculateSnapshotMilestones(maxIterations, frameCount)
ProbeWorkerMilestones ==
    /\ probe.called \in {"import", "worker", "gif-utils"}
    /\ probe' = [parameters |-> probe.parameters,
                 called |-> "worker",
                 args |-> probe.parameters,
                 output |-> calculateSnapshotMilestones(probe.parameters[1],
                                                        probe.parameters[2])]
    /\ UNCHANGED <<network, imageData, imageWidth, imageHeight, isTraining,
                   iteration, batchSize, renderRequested, initialLearningRate,
                   learningRate, momentum, minLearningRate, lossHistory,
                   snapshots, captureSnapshotsEnabled, snapshotMilestones,
                   gifFrameCount, timers, posted, last, shared, taken,
                   retained, ticked, budget, commands>>

\* calculateSnapshotMilestones(maxIterations, frameCount) of gif-utils
ProbeExportedMilestones ==
    /\ probe.called \in {"import", "worker", "gif-utils"}
    /\ probe' = [parameters |-> probe.parameters,
                 called |-> "gif-utils",
                 args |-> probe.parameters,
                 output |-> calculateSnapshotMilestonesExported(
                                probe.parameters[1], probe.parameters[2])]
    /\ UNCHANGED <<network, imageData, imageWidth, imageHeight, isTraining,
                   iteration, batchSize, renderRequested, initialLearningRate,
                   learningRate, momentum, minLearningRate, lossHistory,
                   snapshots, captureSnapshotsEnabled, snapshotMilestones,
                   gifFrameCount, timers, posted, last, shared, taken,
                   retained, ticked, budget, commands>>

\* Both modules are loaded, and a pair of arguments is chosen.
InitMilestones ==
    /\ network = NullNetwork
    /\ imageData = 0
    /\ imageWidth = 0
    /\ imageHeight = 0
    /\ isTraining = FALSE
    /\ iteration = 0
    /\ batchSize = DefaultBatchSize
    /\ renderRequested = FALSE
    /\ initialLearningRate = StartLearningRate
    /\ learningRate = StartLearningRate
    /\ momentum = DefaultMomentum
    /\ minLearningRate = DefaultMinLearningRate
    /\ lossHistory = <<>>
    /\ snapshots = <<>>
    /\ captureSnapshotsEnabled = FALSE
    /\ snapshotMilestones = <<>>
    /\ gifFrameCount = DefaultFrameCount
    /\ timers = 0
    /\ posted = <<>>
    /\ last = [type |-> "none"]
    /\ shared = {}
    /\ taken = <<>>
    /\ retained = {}
    /\ probe \in {[parameters |-> args, called |-> "import", args |-> <<>>,
                   output |-> <<>>] : args \in MilestoneArgs}
    /\ ticked = FALSE
    /\ budget = 0
    /\ commands = 0

NextMilestones ==
    \/ ProbeWorkerMilestones
    \/ ProbeExportedMilestones

SpecMilestones == InitMilestones /\ [][NextMilestones]_vars

----------------------------------------------------------------------------
(* The ImagePainter component, which owns the training worker.  Under      *)
(* test here is the component alone: probe.parameters is the component's   *)
(* state, probe.args the handlers the user has invoked, probe.output the   *)
(* messages the component has posted to the worker, in order.  The worker  *)
(* appears only as the source of one ready event for each init it is sent. *)

MaxUserActions == 2

\* MOMENT_IMAGES has five entries
MomentImages == 5

\* positions of a parameter slider; 0 is the value of useState
SliderPositions == {0, 1}

SliderHandlers ==
    {"handleLearningRateChange", "handleMomentumChange",
     "handleBatchSizeChange"}

ComponentHandlers ==
    {"ImagePainter", "loadImageFromUrl", "onmessage", "toggleTraining",
     "goToNextImage", "goToPrevImage", "resetTraining"} \cup SliderHandlers

\* loadImageFromUrl(url, autoStart) up to the point where the image has
\* been decoded and the timeout is scheduled: the call is pending, with
\* the parameters of the closure that made it.  by is the handler whose
\* execution led to the call.
PendingLoad(c, url, autoStart, by) ==
    [url |-> url, autoStart |-> autoStart, learningRate |-> c.learningRate,
     momentum |-> c.momentum, batchSize |-> c.batchSize, by |-> by]

\* messages to the worker
InitCommand(load) ==
    [type |-> "init", url |-> load.url, by |-> load.by]

Command(type, by) == [type |-> type, url |-> 0, by |-> by]

\* what the waitForReady listeners post on one ready event, one after the
\* other
RECURSIVE ListenersPost(_)
ListenersPost(listeners) ==
    IF listeners = 0 THEN <<>>
    ELSE <<Command("start", "waitForReady"),
           Command("render", "waitForReady")>>
         \o ListenersPost(listeners - 1)

\* the effect that loads the default image runs again when the identity of
\* loadImageFromUrl changes, which it does when one of learningRate,
\* momentum and batchSize differs from the previous render
EffectLoads(c, changed, by) ==
    IF changed
    THEN Append(c.loads, PendingLoad(c, 0, TRUE, by))
    ELSE c.loads

ComponentStep(called, user, parameters, output) ==
    /\ probe.called \in ComponentHandlers
    /\ probe' = [parameters |-> parameters,
                 called |-> called,
                 args |-> IF user THEN Append(probe.args, called)
                          ELSE probe.args,
                 output |-> output]
    /\ UNCHANGED <<network, imageData, imageWidth, imageHeight, isTraining,
                   iteration, batchSize, renderRequested, initialLearningRate,
                   learningRate, momentum, minLearningRate, lossHistory,
                   snapshots, captureSnapshotsEnabled, snapshotMilestones,
                   gifFrameCount, timers, posted, last, shared, taken,
                   retained, ticked, budget, commands>>

\* The timeout of a pending loadImageFromUrl call fires: init is posted and,
\* with autoStart, a waitForReady listener is added to the worker.
LoadTimeoutFires ==
    LET c == probe.parameters
    IN \E i \in 1..Len(c.loads) :
         LET load == c.loads[i]
         IN ComponentStep(
              "loadImageFromUrl", FALSE,
              [c EXCEPT !.imageLoaded = TRUE,
                        !.workerReady = FALSE,
                        !.loads = SubSeq(c.loads, 1, i - 1)
                                  \o SubSeq(c.loads, i + 1, Len(c.loads)),
                        !.listeners = IF load.autoStart THEN @ + 1 ELSE @,
                        !.ready = @ + 1],
              Append(probe.output, InitCommand(load)))

\* A ready event of the worker is dispatched: worker.onmessage sets
\* workerReady, then every waitForReady listener registered at that moment
\* removes itself, sets isTraining and posts start and render.
ReadyArrives ==
    LET c == probe.parameters
    IN /\ c.ready > 0
       /\ ComponentStep(
            "onmessage", FALSE,
            [c EXCEPT !.workerReady = TRUE,
                      !.isTraining = IF c.listeners > 0 THEN TRUE ELSE @,
                      !.listeners = 0,
                      !.ready = @ - 1],
            probe.output \o ListenersPost(c.listeners))

\* toggleTraining()
ToggleTraining ==
    LET c == probe.parameters
        newIsTraining == ~c.isTraining
    IN /\ Len(probe.args) < MaxUserActions
       /\ c.imageLoaded /\ c.workerReady
       /\ ComponentStep(
            "toggleTraining", TRUE,
            [c EXCEPT !.isTraining = newIsTraining],
            probe.output
            \o (IF newIsTraining
                THEN <<Command("start", "toggleTraining"),
                       Command("render", "toggleTraining")>>
                ELSE <<Command("stop", "toggleTraining")>>))

\* goToNextImage() and goToPrevImage(), which differ in the index only
GoToImage(called, index) ==
    LET c == probe.parameters
    IN ComponentStep(
         called, TRUE,
         [c EXCEPT !.isTraining = FALSE,
                   !.currentImageIndex = index,
                   !.loads = Append(@, PendingLoad(c, index, TRUE, called))],
         probe.output
         \o (IF c.isTraining THEN <<Command("stop", called)>> ELSE <<>>))

GoToNextImage ==
    LET nextIndex == (probe.parameters.currentImageIndex + 1) % MomentImages
    IN /\ Len(probe.args) < MaxUserActions
       /\ GoToImage("goToNextImage", nextIndex)

GoToPrevImage ==
    LET prevIndex == (probe.parameters.currentImageIndex - 1 + MomentImages)
                     % MomentImages
    IN /\ Len(probe.args) < MaxUserActions
       /\ GoToImage("goToPrevImage", prevIndex)

\* resetTraining()
ResetTraining ==
    LET c == probe.parameters
    IN /\ Len(probe.args) < MaxUserActions
       /\ ComponentStep(
            "resetTraining", TRUE,
            [c EXCEPT !.isTraining = FALSE],
            Append(probe.output, Command("reset", "resetTraining")))

\* A slider handler sets the state of its parameter and posts its command;
\* the render that follows a change of the state runs the effects whose
\* dependencies changed.
SliderChange(called, type, field) ==
    LET c == probe.parameters
    IN \E value \in SliderPositions :
         LET moved == [c EXCEPT ![field] = value]
         IN ComponentStep(
              called, TRUE,
              [moved EXCEPT
                 !.loads = EffectLoads(moved, value # c[field], called)],
              Append(probe.output, Command(type, called)))

HandleLearningRateChange ==
    /\ Len(probe.args) < MaxUserActions
    /\ SliderChange("handleLearningRateChange", "setLearningRate", "learningRate")

HandleMomentumChange ==
    /\ Len(probe.args) < MaxUserActions
    /\ SliderChange("handleMomentumChange", "setMomentum", "momentum")

HandleBatchSizeChange ==
    /\ Len(probe.args) < MaxUserActions
    /\ SliderChange("handleBatchSizeChange", "setBatchSize", "batchSize")

\* The component after its first render and its effects: the worker exists
\* and the default image is being loaded with autoStart.
MountedComponent ==
    LET c == [imageLoaded |-> FALSE, isTraining |-> FALSE,
              workerReady |-> FALSE, currentImageIndex |-> 0,
              learningRate |-> 0, momentum |-> 0, batchSize |-> 0,
              loads |-> <<>>, listeners |-> 0, ready |-> 0]
    IN [c EXCEPT !.loads = <<PendingLoad(c, 0, TRUE, "ImagePainter")>>]

InitComponent ==
    /\ network = NullNetwork
    /\ imageData = 0
    /\ imageWidth = 0
    /\ imageHeight = 0
    /\ isTraining = FALSE
    /\ iteration = 0
    /\ batchSize = DefaultBatchSize
    /\ renderRequested = FALSE
    /\ initialLearningRate = StartLearningRate
    /\ learningRate = StartLearningRate
    /\ momentum = DefaultMomentum
    /\ minLearningRate = DefaultMinLearningRate
    /\ lossHistory = <<>>
    /\ snapshots = <<>>
    /\ captureSnapshotsEnabled = FALSE
    /\ snapshotMilestones = <<>>
    /\ gifFrameCount = DefaultFrameCount
    /\ timers = 0
    /\ posted = <<>>
    /\ last = [type |-> "none"]
    /\ shared = {}
    /\ taken = <<>>
    /\ retained = {}
    /\ probe = [parameters |-> MountedComponent, called |-> "ImagePainter",
                args |-> <<>>, output |-> <<>>]
    /\ ticked = FALSE
    /\ budget = 0
    /\ commands = 0

NextComponent ==
    \/ LoadTimeoutFires
    \/ ReadyArrives
    \/ ToggleTraining
    \/ GoToNextImage
    \/ GoToPrevImage
    \/ ResetTraining
    \/ HandleLearningRateChange
    \/ HandleMomentumChange
    \/ HandleBatchSizeChange

SpecComponent == InitComponent /\ [][NextComponent]_vars

----------------------------------------------------------------------------
(* Properties *)

EventsOfType(events, t) == {i \in 1..Len(events) : events[i].type = t}

\* C1: once stop has been handled the running flag is false, and while it
\* is false no handler other than start executes a training tick: the flag
\* stays false, no progress or render event and no snapshotCaptured event of
\* a tick is posted, the iteration counter and the loss history change only
\* by init and reset, the learning rate only by init, reset and
\* setLearningRate; a timer callback that runs while the flag is false
\* changes nothing and leaves no timer behind in its place.
C1_StopHaltsTicks ==
    [][/\ last'.type = "stop" => ~isTraining'
       /\ (~isTraining /\ last'.type # "start") =>
              /\ ~isTraining'
              /\ ~ticked'
              /\ EventsOfType(posted', "progress") = {}
              /\ EventsOfType(posted', "render") = {}
              /\ (last'.type # "enableSnapshotCapture"
                    => EventsOfType(posted', "snapshotCaptured") = {})
              /\ (last'.type \notin {"init", "reset"}
                    => iteration' = iteration /\ lossHistory' = lossHistory)
              /\ (last'.type \notin {"init", "reset", "setLearningRate"}
                    => learningRate' = learningRate)
              /\ (last'.type \notin {"init", "reset", "setLearningRate",
                                     "setMomentum", "renderSnapshot", "generateGif"}
                    => network' = network)
       /\ (~isTraining /\ last'.type = "timer") =>
              /\ timers' = timers - 1
              /\ posted' = <<>>
              /\ UNCHANGED <<network, imageData, imageWidth, imageHeight,
                             isTraining, iteration, batchSize, renderRequested,
                             initialLearningRate, learningRate, momentum,
                             minLearningRate, lossHistory, snapshots,
                             captureSnapshotsEnabled, snapshotMilestones,
                             gifFrameCount>>
      ]_vars

\* A timer that was pending when training was stopped after two ticks has
\* run and returned.
C1_Witness ==
    /\ last.type = "timer"
    /\ ~ticked
    /\ ~isTraining
    /\ network.present
    /\ imageData # 0
    /\ iteration = 100
    /\ timers = 0

\* C2: every executed tick advances the iteration counter by exactly 50
\* and posts exactly one progress event, which carries the iteration after
\* the tick; the counter changes otherwise only by init and reset, which
\* zero it, so it is a multiple of 50 in every state and successive progress
\* events between two of those commands are 50 apart.
C2_TickAdvancesFifty ==
    /\ [](iteration % 50 = 0)
    /\ [][/\ ticked' =>
                /\ iteration' = iteration + 50
                /\ Cardinality(EventsOfType(posted', "progress")) = 1
                /\ \A i \in EventsOfType(posted', "progress") :
                       posted'[i].iteration = iteration'
          /\ ~ticked' =>
                /\ EventsOfType(posted', "progress") = {}
                /\ IF last'.type \in {"init", "reset"}
                   THEN iteration' = 0
                   ELSE iteration' = iteration
         ]_vars

\* The second tick in a row has posted its progress event.
C2_Witness ==
    /\ ticked
    /\ iteration = 100
    /\ \E i \in EventsOfType(posted, "progress") : posted[i].iteration = 100

\* C3: a render event is posted only as the last event of a training tick
\* that found the render request set; such a tick posts exactly one render
\* event and clears the request, a tick that finds no request posts none,
\* and the request is set only by a render command.
C3_RenderOnlyOnRequest ==
    [][/\ EventsOfType(posted', "render") # {} =>
              /\ ticked'
              /\ renderRequested
              /\ EventsOfType(posted', "render") = {Len(posted')}
       /\ ticked' =>
              /\ Cardinality(EventsOfType(posted', "render")) =
                     (IF renderRequested THEN 1 ELSE 0)
              /\ ~renderRequested'
       /\ (renderRequested' /\ ~renderRequested) => last'.type = "render"
       /\ (renderRequested /\ ~renderRequested') => ticked'
      ]_vars

\* A timer tick has served a render request made while training ran.
C3_Witness ==
    /\ ticked
    /\ last.type = "timer"
    /\ EventsOfType(posted, "render") # {}
    /\ ~renderRequested

\* C4: when the event loop runs every pending timer, a render request that
\* is pending while a model exists and the running flag is true is followed
\* by a render event unless the flag becomes false (budget > 0: the model
\* lets the behaviour execute a further tick); and the tick that posts it is
\* the first one to execute, since every tick that finds the request set
\* posts a render event.
C4_RenderEventuallyServed ==
    /\ [][(ticked' /\ renderRequested) => EventsOfType(posted', "render") # {}]_vars
    /\ (renderRequested /\ isTraining /\ network.present /\ budget > 0)
           ~> (EventsOfType(posted, "render") # {} \/ ~isTraining)

\* A render request made between two ticks was served by the timer tick and
\* training goes on.
C4_Witness ==
    /\ EventsOfType(posted, "render") # {}
    /\ last.type = "timer"
    /\ isTraining
    /\ timers = 1
    /\ iteration = 100

OptValue(x, d) == IF x = <<>> THEN d ELSE x[1]

\* C5: init, from any state, clears the running flag, zeroes the iteration
\* counter, empties the loss history, installs a model with zero velocities
\* whose rate and momentum are the given ones (momentum 0.9, batch size 5,
\* floor 0.0001 when omitted), stores the image with its dimensions and
\* posts the ready event and nothing else.
C5_InitResets ==
    [][last'.type = "init" =>
          /\ ~isTraining'
          /\ iteration' = 0
          /\ lossHistory' = <<>>
          /\ network'.present
          /\ network'.velocities = 0
          /\ learningRate' = last'.learningRate
          /\ network'.learningRate = last'.learningRate
          /\ momentum' = OptValue(last'.momentum, 900)
          /\ network'.momentum = OptValue(last'.momentum, 900)
          /\ batchSize' = OptValue(last'.batchSize, 5)
          /\ minLearningRate' = OptValue(last'.minLearningRate, 100)
          /\ imageData' = last'.image.data
          /\ imageWidth' = last'.image.width
          /\ imageHeight' = last'.image.height
          /\ posted' = <<[type |-> "ready"]>>
      ]_vars

\* init with a zero rate and an empty batch was handled while a timer of an
\* earlier run was still pending.
C5_Witness ==
    /\ last.type = "init"
    /\ last.learningRate = 0
    /\ last.batchSize = <<0>>
    /\ last.momentum = <<>>
    /\ timers > 0
    /\ budget < MaxTicks

\* C6: reset clears the running flag, zeroes the iteration counter, empties
\* the loss history, installs a model with zero velocities and posts the reset
\* event and nothing else; given a learning rate r, the model is at rate r,
\* and a start handled next posts one progress event, with iteration 50 and
\* learning rate r.
C6_ResetRestarts ==
    [][/\ last'.type = "reset" =>
              /\ ~isTraining'
              /\ iteration' = 0
              /\ lossHistory' = <<>>
              /\ network'.present
              /\ network'.velocities = 0
              /\ network'.learningRate = learningRate'
              /\ posted' = <<[type |-> "reset"]>>
              /\ (last'.learningRate # <<>> =>
                      learningRate' = last'.learningRate[1])
       /\ (last.type = "reset" /\ last.learningRate # <<>>
             /\ last'.type = "start") =>
              /\ Cardinality(EventsOfType(posted', "progress")) = 1
              /\ \A i \in EventsOfType(posted', "progress") :
                     /\ posted'[i].iteration = 50
                     /\ posted'[i].learningRate = last.learningRate[1]
      ]_vars

\* start was handled after a reset to rate 0 of a worker that init had set
\* up with another rate: the first tick reports iteration 50 and rate 0.
C6_Witness ==
    /\ last.type = "start"
    /\ ticked
    /\ iteration = 50
    /\ initialLearningRate = 0
    /\ batchSize # 0
    /\ \E i \in EventsOfType(posted, "progress") : posted[i].learningRate = 0

\* A tick that decayed the rate leaves the loss history empty; every other
\* tick leaves its own loss in it.
Decayed == ticked /\ lossHistory = <<>>

\* C7: a plateau decay leaves the learning rate at or above the floor, and a
\* tick that finds the rate at or below the floor does not decay it.
C7_DecayStaysAboveFloor ==
    [][/\ Decayed' => (learningRate > minLearningRate
                         /\ learningRate' >= minLearningRate')
       /\ (ticked' /\ learningRate <= minLearningRate) =>
              (~Decayed' /\ learningRate' = learningRate)
      ]_vars

\* A decay was clamped to the floor.
C7_Witness ==
    /\ Decayed
    /\ learningRate = 9800
    /\ minLearningRate = 9800
    /\ network.learningRate = 9800

C9_RateNonIncreasing ==
    [][(isTraining /\ isTraining'
          /\ last'.type \notin {"init", "reset", "setLearningRate"}) =>
             learningRate' <= learningRate
      ]_vars

\* The mean loss of the tick that ran last.
TickLoss(events) ==
    LET i == CHOOSE j \in EventsOfType(events, "progress") : TRUE
    IN  events[i].loss

\* (oldest - newest) / oldest < 0.001
C10_BelowThreshold(oldest, newest) ==
    IF oldest = NaN \/ newest = NaN THEN FALSE
    ELSE IF oldest = 0 THEN newest > 0
    ELSE 1000 * (oldest - newest) < oldest

\* C10: a tick decays the learning rate exactly when, with its loss
\* appended, the loss history holds 100 entries, the rate exceeds the floor
\* and (oldest - newest) / oldest < 0.001.  The decay sets the rate to
\* max(floor, 0.95 * rate) in the worker and in the model and empties the
\* history; any other tick leaves the rate as it was and the history with
\* the latest (at most 100) losses.
C10_DecayExactlyOnPlateau ==
    [][ticked' =>
          LET newest == TickLoss(posted')
              oldest == IF Len(lossHistory) = 100 THEN lossHistory[2]
                        ELSE lossHistory[1]
              plateau == /\ Len(lossHistory) >= 99
                         /\ learningRate > minLearningRate
                         /\ C10_BelowThreshold(oldest, newest)
          IN  IF plateau
              THEN /\ lossHistory' = <<>>
                   /\ IF 95 * learningRate >= 100 * minLearningRate
                      THEN 100 * learningRate' = 95 * learningRate
                      ELSE learningRate' = minLearningRate
                   /\ network'.learningRate = learningRate'
              ELSE /\ learningRate' = learningRate
                   /\ network'.learningRate = network.learningRate
                   /\ lossHistory' =
                        IF Len(lossHistory) = 100
                        THEN Tail(lossHistory) \o <<newest>>
                        ELSE lossHistory \o <<newest>>
      ]_vars

\* A tick slid a full history by one loss without decaying, and the next
\* tick decayed the rate from 0.01 to 0.0095.
C10_Witness ==
    /\ Decayed
    /\ iteration = 5050
    /\ learningRate = 9500
    /\ network.learningRate = 9500

\* C11: the loss history never holds more than 100 entries; a tick appends
\* its mean loss as the newest entry and, when the history was full, drops
\* the oldest entry and nothing else, unless the tick decays the rate, which
\* empties the history; init and reset empty it, and no other handler
\* changes it.
C11_HistoryBoundedFifo ==
    /\ [](Len(lossHistory) <= 100)
    /\ [][/\ last'.type \in {"init", "reset"} => lossHistory' = <<>>
          /\ ticked' =>
                LET newest == TickLoss(posted')
                IN  \/ /\ lossHistory' = <<>>
                       /\ Len(lossHistory) >= 99
                    \/ /\ Len(lossHistory) < 100
                       /\ lossHistory' = lossHistory \o <<newest>>
                    \/ /\ Len(lossHistory) = 100
                       /\ lossHistory' =
                            [i \in 1..100 |-> IF i < 100 THEN lossHistory[i + 1]
                                              ELSE newest]
          /\ (ticked' /\ learningRate' # learningRate) => lossHistory' = <<>>
          /\ (~ticked' /\ last'.type \notin {"init", "reset"}) =>
                lossHistory' = lossHistory
         ]_vars

\* A tick found the history full, dropped the oldest loss and kept the 99
\* later ones (zeros) with its own loss (1000) behind them.
C11_Witness ==
    /\ ticked
    /\ iteration = 5050
    /\ Len(lossHistory) = 100
    /\ lossHistory[1] = 0
    /\ lossHistory[100] = 1000

\* C12: a milestone schedule computed for frameCount > 2 has exactly
\* frameCount entries, starts at 0, ends at maxIterations (100 for every
\* sampled message) and is strictly increasing: no two adjacent milestones
\* are equal.
C12_ScheduleStrictlyIncreasing ==
    (snapshotMilestones # <<>> /\ gifFrameCount > 2) =>
        /\ Len(snapshotMilestones) = gifFrameCount
        /\ snapshotMilestones[1] = 0
        /\ snapshotMilestones[Len(snapshotMilestones)] = 100
        /\ \A i \in 1..(Len(snapshotMilestones) - 1) :
               snapshotMilestones[i] < snapshotMilestones[i + 1]

\* The schedule for a given maxIterations and frameCount >= 2: frameCount
\* entries from 0 to maxIterations, the ones between being the integer parts
\* of the powers of the (frameCount - 2)-th root of maxIterations.
C13_IsSchedule(ms, maxIterations, frameCount) ==
    /\ Len(ms) = frameCount
    /\ ms[1] = 0
    /\ ms[frameCount] = maxIterations
    /\ \A i \in 1..(frameCount - 2) :
           /\ Pow(ms[i + 1], frameCount - 2) <= Pow(maxIterations, i)
           /\ Pow(ms[i + 1] + 1, frameCount - 2) > Pow(maxIterations, i)

\* C13, as claimed: enableSnapshotCapture enables capture, stores the schedule
\* of its arguments and, with a model, leaves exactly one snapshot, of
\* iteration 0 and of the model's parameters, and posts one snapshotCaptured
\* event with count 1; without a model it leaves no snapshot and posts
\* nothing.
C13_EnableCapturesIterationZero ==
    [][last'.type = "enableSnapshotCapture" =>
          /\ captureSnapshotsEnabled'
          /\ C13_IsSchedule(snapshotMilestones', last'.maxIterations[1],
                            last'.frameCount[1])
          /\ IF network.present
             THEN /\ snapshots' = <<[iteration |-> 0, weights |-> network.weights]>>
                  /\ posted' = <<[type |-> "snapshotCaptured", count |-> 1,
                                  total |-> Len(snapshotMilestones')]>>
             ELSE /\ snapshots' = <<>>
                  /\ posted' = <<>>
      ]_vars

\* C13, amended: as above, but the one snapshot carries the iteration
\* counter at the time of the command, which is 0 only before any training
\* since the last init or reset.
C13_EnableCapturesCurrentIteration ==
    [][last'.type = "enableSnapshotCapture" =>
          /\ captureSnapshotsEnabled'
          /\ C13_IsSchedule(snapshotMilestones', last'.maxIterations[1],
                            last'.frameCount[1])
          /\ IF network.present
             THEN /\ snapshots' = <<[iteration |-> iteration,
                                     weights |-> network.weights]>>
                  /\ posted' = <<[type |-> "snapshotCaptured", count |-> 1,
                                  total |-> Len(snapshotMilestones')]>>
             ELSE /\ snapshots' = <<>>
                  /\ posted' = <<>>
          /\ UNCHANGED <<network, iteration, isTraining, lossHistory>>
      ]_vars

\* Capture was enabled after a tick had trained the model: the one snapshot
\* held is of iteration 50.
C13_Witness ==
    /\ last.type = "enableSnapshotCapture"
    /\ network.present
    /\ iteration = 50
    /\ Len(snapshots) = 1
    /\ snapshots[1].iteration = 50
    /\ Len(posted) = 1

\* In a capture session: start is the one command handled since
\* enableSnapshotCapture, so that every step since was a training tick.
Uninterrupted == commands = MaxCaptureCommands - 1 /\ isTraining

\* C14: in a session that begins with init and enableSnapshotCapture(100,
\* frameCount), frameCount > 2, before any training, exactly one snapshot, of
\* iteration 0, is held until a command is handled.  After start, while
\* training runs uninterrupted, a tick posts at most one snapshotCaptured
\* event; the event counts the snapshots held, one more than before, and its
\* total is frameCount; a tick that posts none captures nothing.  The count
\* never exceeds frameCount, and it is frameCount once the counter has
\* reached 100 + 50 * (frameCount - 2): from iteration 100 on every tick
\* captures until the schedule is served.  So frameCount events are posted in
\* the session, with counts 1, 2, ..., frameCount.
C14_SessionCapturesFrameCount ==
    /\ [](commands = MaxCaptureCommands =>
            /\ Len(snapshots) = 1
            /\ snapshots[1].iteration = 0
            /\ posted = <<[type |-> "snapshotCaptured", count |-> 1,
                           total |-> gifFrameCount]>>)
    /\ []((Uninterrupted /\ iteration >= 100 + 50 * (gifFrameCount - 2)) =>
            Len(snapshots) = gifFrameCount)
    /\ [][Uninterrupted' =>
            LET events == EventsOfType(posted', "snapshotCaptured")
            IN  /\ ticked'
                /\ Cardinality(events) <= 1
                /\ Len(snapshots') <= gifFrameCount
                /\ \A i \in events :
                       /\ posted'[i].count = Len(snapshots) + 1
                       /\ posted'[i].total = gifFrameCount
                       /\ Len(snapshots') = Len(snapshots) + 1
                /\ events = {} => snapshots' = snapshots
         ]_vars

\* The session of four frames is complete and the tick after the fourth
\* capture captured nothing.
C14_Witness ==
    /\ Uninterrupted
    /\ ticked
    /\ gifFrameCount = 4
    /\ iteration = 200
    /\ Len(snapshots) = 4
    /\ EventsOfType(posted, "snapshotCaptured") = {}

\* C15, as claimed: while capture is enabled, a tick captures every unmet
\* milestone that the iteration counter has reached or passed at its end, so
\* that each milestone is captured at the first tick boundary at or after it.
C15_EveryReachedMilestoneCaptured ==
    [][(ticked' /\ captureSnapshotsEnabled) =>
          \A k \in 1..Len(snapshotMilestones) :
              (k > Len(snapshots) /\ iteration' >= snapshotMilestones[k]) =>
                  Len(snapshots') >= k
      ]_vars

\* C15, amended: a tick captures at most one snapshot.  While capture is
\* enabled it captures the next unmet milestone, the one indexed by the
\* number of snapshots held, exactly when the iteration counter at the end
\* of the tick has reached or passed that milestone; the snapshot is of that
\* iteration and of the model the tick has trained.  A later milestone that
\* has been reached as well waits for a later tick.
C15_NextMilestoneCapturedWhenReached ==
    [][ticked' =>
          IF /\ captureSnapshotsEnabled
             /\ Len(snapshots) < Len(snapshotMilestones)
             /\ iteration' >= snapshotMilestones[Len(snapshots) + 1]
          THEN snapshots' = snapshots \o <<[iteration |-> iteration',
                                            weights |-> network'.weights]>>
          ELSE snapshots' = snapshots
      ]_vars

\* Capture was enabled before a model existed; the first tick captured
\* milestone 0 at iteration 50 and left milestone 10, passed as well, unmet.
C15_Witness ==
    /\ ticked
    /\ captureSnapshotsEnabled
    /\ iteration = 50
    /\ Len(snapshots) = 1
    /\ snapshots[1].iteration = 50
    /\ snapshotMilestones = <<0, 10, 100, 100>>

\* C16: disableSnapshotCapture switches capture off and empties the snapshot
\* list; while capture is off only enableSnapshotCapture switches it on, no
\* handler and no tick adds a snapshot or posts snapshotCaptured, and the
\* snapshot list is empty.
C16_DisableDiscardsAndStops ==
    /\ [](~captureSnapshotsEnabled => snapshots = <<>>)
    /\ [][/\ last'.type = "disableSnapshotCapture" =>
                /\ ~captureSnapshotsEnabled'
                /\ snapshots' = <<>>
                /\ posted' = <<>>
          /\ (~captureSnapshotsEnabled
                /\ last'.type # "enableSnapshotCapture") =>
                /\ ~captureSnapshotsEnabled'
                /\ snapshots' = <<>>
                /\ EventsOfType(posted', "snapshotCaptured") = {}
         ]_vars

\* Capture was disabled during a session that held snapshots; a later tick
\* reached iteration 100, past milestones of the schedule still stored, and
\* captured nothing.
C16_Witness ==
    /\ ~captureSnapshotsEnabled
    /\ ticked
    /\ last.type = "timer"
    /\ iteration >= 100
    /\ snapshotMilestones = <<0, 10, 100, 100>>
    /\ snapshots = <<>>

\* C17: a step that handles reset leaves the snapshot list empty.
C17_ResetDiscardsSnapshots ==
    [][last'.type = "reset" => snapshots' = <<>>]_vars

\* C18: every snapshot held stores the iteration and the parameters the model
\* had when the snapshot was taken, and a step that handles neither
\* enableSnapshotCapture nor disableSnapshotCapture, be it a training tick, a
\* renderSnapshot or a generateGif, leaves every snapshot held as it was and
\* where it was.
C18_SnapshotsIndependentOfModel ==
    /\ [](/\ Len(snapshots) = Len(taken)
          /\ \A i \in 1..Len(snapshots) :
                 /\ snapshots[i].iteration = taken[i].iteration
                 /\ snapshots[i].weights = taken[i].weights)
    /\ [][last'.type \notin {"enableSnapshotCapture", "disableSnapshotCapture"} =>
            /\ Len(snapshots') >= Len(snapshots)
            /\ \A i \in 1..Len(snapshots) : snapshots'[i] = snapshots[i]
         ]_vars

\* The model was trained from parameters 1 to parameters 2 after the first
\* snapshot was taken, and renderSnapshot(0) has then restored that snapshot,
\* which still holds parameters 1.
C18_Witness ==
    /\ last.type = "renderSnapshot"
    /\ Len(posted) = 1
    /\ posted[1].snapshotIndex = 0
    /\ Len(snapshots) >= 2
    /\ snapshots[1] = [iteration |-> 0, weights |-> 1]
    /\ snapshots[2].weights = 2
    /\ network.weights = 1

\* C19: renderSnapshot on a snapshot held restores it into the model, and
\* predict then returns, for every input, the output that predict returned
\* on the model when the snapshot was taken, whatever ticks trained the
\* model in between; the rendering posted is the one of those parameters.
C19_RestoreReproducesPredict ==
    [][(last'.type = "renderSnapshot" /\ posted' # <<>>) =>
          LET index == posted'[1].snapshotIndex + 1
          IN  /\ index \in 1..Len(taken)
              /\ \A p \in Points :
                     predict(network', p[1], p[2]) = taken[index].predicted[p]
              /\ posted'[1].buffer.weights = taken[index].weights
              /\ posted'[1].iteration = taken[index].iteration
      ]_vars

\* Two ticks trained the model, the second one away from the parameters it
\* had at iteration 50, and renderSnapshot(1) has restored the snapshot of
\* iteration 50.
C19_Witness ==
    /\ last.type = "renderSnapshot"
    /\ Len(posted) = 1
    /\ posted[1].snapshotIndex = 1
    /\ posted[1].iteration = 50
    /\ iteration = 100
    /\ Len(snapshots) = 3
    /\ snapshots[3].weights # snapshots[2].weights
    /\ network.weights = snapshots[2].weights

\* C20: a renderSnapshot step changes nothing of the model but its
\* parameters, which become those of the snapshot: the velocity buffers, the
\* model's learning rate and momentum, and the worker's iteration counter,
\* loss history, running flag, snapshot list and every other setting are as
\* before; with no such snapshot or no model the step changes nothing.  The
\* same holds for the restores of a generateGif that posts its frames while
\* training is stopped.
C20_RestoreOverwritesOnlyParameters ==
    [][/\ last'.type = "renderSnapshot" =>
              /\ IF posted' # <<>>
                 THEN /\ network'.present
                      /\ network'.weights =
                             snapshots[posted'[1].snapshotIndex + 1].weights
                 ELSE network'.weights = network.weights
              /\ network'.velocities = network.velocities
              /\ network'.learningRate = network.learningRate
              /\ network'.momentum = network.momentum
              /\ UNCHANGED <<iteration, lossHistory, isTraining, snapshots,
                             learningRate, momentum, minLearningRate,
                             initialLearningRate, batchSize, renderRequested,
                             captureSnapshotsEnabled, snapshotMilestones,
                             gifFrameCount, imageData, imageWidth,
                             imageHeight, timers>>
       /\ (last'.type = "generateGif" /\ ~ticked'
             /\ EventsOfType(posted', "gifFrames") # {}) =>
              /\ network'.velocities = network.velocities
              /\ network'.learningRate = network.learningRate
              /\ network'.momentum = network.momentum
              /\ UNCHANGED <<iteration, lossHistory, isTraining, snapshots,
                             learningRate, momentum>>
      ]_vars

\* While training was running, after the tick that trained the model to
\* parameters 2 and wrote its velocity buffers, renderSnapshot(0) has put
\* parameters 1 back; velocities, counter, history and flag are the tick's.
C20_Witness ==
    /\ last.type = "renderSnapshot"
    /\ Len(posted) = 1
    /\ posted[1].snapshotIndex = 0
    /\ isTraining
    /\ iteration = 50
    /\ Len(lossHistory) = 1
    /\ network.velocities = 1
    /\ network.weights = 1
    /\ Len(snapshots) = 2
    /\ snapshots[2] = [iteration |-> 50, weights |-> 2]

\* The gifFrames event of the handler that ran last.
GifFramesOf(events) ==
    events[CHOOSE i \in EventsOfType(events, "gifFrames") : TRUE]

\* C21: a generateGif handled with S >= 2 snapshots held posts one gifFrames
\* event with exactly 2S - 2 frames: S forward frames, each the rendering of
\* one of the snapshots at the resolution of the image, then the S - 2
\* forward frames between the endpoints in reverse order, so that frame
\* S + j is frame S - j for 1 <= j <= S - 2 and neither the first nor the
\* last forward frame is repeated.
C21_JourneyHasTwoSMinusTwoFrames ==
    [][(last'.type = "generateGif" /\ Len(snapshots) >= 2
          /\ network.present /\ imageData # 0) =>
          /\ Cardinality(EventsOfType(posted', "gifFrames")) = 1
          /\ EventsOfType(posted', "gifError") = {}
          /\ LET S == Len(snapshots)
                 frames == GifFramesOf(posted').frames
             IN  /\ Len(frames) = 2 * S - 2
                 /\ \A k \in 1..S :
                        /\ frames[k].weights \in
                               {snapshots[i].weights : i \in 1..S}
                        /\ frames[k].width = imageWidth
                        /\ frames[k].height = imageHeight
                 /\ \A j \in 1..(S - 2) : frames[S + j] = frames[S - j]
      ]_vars

\* generateGif was handled with four snapshots held, whose two middle ones
\* differ: the event carries six frames.
C21_Witness ==
    /\ last.type = "generateGif"
    /\ EventsOfType(posted, "gifFrames") # {}
    /\ Len(GifFramesOf(posted).frames) = 6
    /\ GifFramesOf(posted).frames[2] # GifFramesOf(posted).frames[3]

\* C22: a generateGif handled with fewer than two snapshots held posts a
\* gifError event and no gifFrames event.
C22_FewerThanTwoIsError ==
    [][(last'.type = "generateGif" /\ Len(snapshots) < 2) =>
          /\ EventsOfType(posted', "gifFrames") = {}
          /\ EventsOfType(posted', "gifError") # {}
      ]_vars

\* C23: the first S frames of a gifFrames event are the renderings of the S
\* snapshots held, oldest first: frame k is the rendering of the k-th
\* snapshot captured.
C23_ForwardFramesOldestFirst ==
    [][(last'.type = "generateGif"
          /\ EventsOfType(posted', "gifFrames") # {}) =>
          \A k \in 1..Len(snapshots) :
              GifFramesOf(posted').frames[k].weights = snapshots[k].weights
      ]_vars

\* C24: a step that handles generateGif leaves the running flag as it was,
\* whether it posts frames or an error.
C24_GenerateGifKeepsRunningFlag ==
    [][last'.type = "generateGif" => isTraining' = isTraining]_vars

\* A generateGif that cannot produce frames: no snapshot, no image or no
\* model.
C25_CannotAssemble == Len(snapshots) = 0 \/ imageData = 0 \/ ~network.present

C26_RenderSnapshotTagsAndRestores ==
    [][last'.type = "renderSnapshot" =>
          LET i == last'.snapshotIndex
          IN  IF network.present /\ i >= 0 /\ i < Len(snapshots)
              THEN /\ Len(posted') = 1
                   /\ posted'[1].type = "snapshotRendered"
                   /\ posted'[1].snapshotIndex = i
                   /\ posted'[1].iteration = snapshots[i + 1].iteration
                   /\ posted'[1].buffer =
                          [weights |-> snapshots[i + 1].weights,
                           width |-> imageWidth, height |-> imageHeight]
                   /\ posted'[1].width = imageWidth
                   /\ posted'[1].height = imageHeight
                   /\ network'.weights = snapshots[i + 1].weights
                   /\ snapshots' = snapshots
              ELSE /\ posted' = <<>>
                   /\ UNCHANGED <<network, imageData, imageWidth, imageHeight,
                                  isTraining, iteration, batchSize,
                                  renderRequested, initialLearningRate,
                                  learningRate, momentum, minLearningRate,
                                  lossHistory, snapshots,
                                  captureSnapshotsEnabled, snapshotMilestones,
                                  gifFrameCount, timers>>
      ]_vars

\* With the counter at 100 and the model at the parameters of the third
\* snapshot, renderSnapshot(1) posted the frame of iteration 50 and left
\* the model at the parameters of the second snapshot.
C26_Witness ==
    /\ last.type = "renderSnapshot"
    /\ last.snapshotIndex = 1
    /\ iteration = 100
    /\ Len(snapshots) = 3
    /\ snapshots[2].weights # snapshots[3].weights
    /\ posted = <<[type |-> "snapshotRendered",
                   buffer |-> [weights |-> snapshots[2].weights,
                               width |-> 2, height |-> 2],
                   storage |-> 1, width |-> 2, height |-> 2,
                   snapshotIndex |-> 1, iteration |-> 50]>>
    /\ network.weights = snapshots[2].weights

\* C27: until the first init is handled (the worker holds no image until
\* then), no training tick has executed, the iteration counter is 0 and the
\* handler that ran last posted no progress, render, snapshotCaptured or
\* snapshotRendered event.
C27_SilentBeforeInit ==
    imageData = 0 =>
        /\ ~ticked
        /\ iteration = 0
        /\ \A i \in 1..Len(posted) :
               posted[i].type \notin {"progress", "render", "snapshotCaptured",
                                      "snapshotRendered"}

\* The number of pixel buffers carried by a sequence of events.
C28_BufferCount(events) ==
    Cardinality(EventsOfType(events, "render"))
    + Cardinality(EventsOfType(events, "snapshotRendered"))
    + (IF EventsOfType(events, "gifFrames") = {} THEN 0
       ELSE Len(GifFramesOf(events).frames))

\* C28: the pixel buffers posted by one handler run, in render,
\* snapshotRendered and gifFrames events, the mirrored frames of a journey
\* included, are as many pieces of storage as there are buffers: no two of
\* them share storage.  Each is storage the worker did not refer to before
\* the handler ran, and the worker refers to none of it once the handler has
\* returned, so that no later handler can post it again.
C28_BuffersNeverShared ==
    /\ [](retained = {})
    /\ [](Cardinality(StorageOf(posted)) = C28_BufferCount(posted))
    /\ [][StorageOf(posted') \cap (retained \cup retained') = {}]_vars

\* A journey of four snapshots was posted: six frames in six pieces of
\* storage, although the mirrored frames show what frames 2 and 3 show.
C28_Witness ==
    /\ last.type = "generateGif"
    /\ EventsOfType(posted, "gifFrames") # {}
    /\ Len(GifFramesOf(posted).frames) = 6
    /\ GifFramesOf(posted).frames[5] = GifFramesOf(posted).frames[3]
    /\ Cardinality(StorageOf(posted)) = 6

\* A channel within [0, 1].
C29_InUnitInterval(c) == IsFinite(c) /\ 0 <= c[2] /\ c[2] <= 1

\* C29: for every parameter state and every input (x, y), each of the three
\* channels returned by predict lies within [0, 1].
C29_OutputsWithinUnitInterval ==
    probe.called = "predict" =>
        \A j \in 1..3 : C29_InUnitInterval(probe.output[j])

\* C29, second half: predict and renderToBuffer leave weights, biases and
\* velocities as they were.
C29_NoSideEffects ==
    [][probe'.called \in {"predict", "renderToBuffer"} =>
          probe'.parameters = probe.parameters]_vars

\* The sum of the first b entries of a sequence of losses.
RECURSIVE C30_SumOf(_, _)
C30_SumOf(losses, b) ==
    IF b = 0 THEN 0 ELSE C30_SumOf(losses, b - 1) + losses[b]

\* The number of samples a tick has trained, and the sum of their losses:
\* 25 odd batches and 25 even ones.
C30_Samples == batchesPerFrame * Len(probe.args[1])

C30_SampleLossSum ==
    (batchesPerFrame \div 2)
    * (C30_SumOf(probe.args[1], Len(probe.args[1]))
       + C30_SumOf(probe.args[2], Len(probe.args[2])))

\* C30: the loss of a tick, which the progress event carries, is the
\* arithmetic mean of the per-sample losses of all samples trained in the
\* 50 batches of the tick, whatever the batch size set: avgLoss = n / d
\* with n * samples = d * sum, and d # 0.  A tick that trained no sample
\* has no mean, and is not constrained.
C30_LossIsMeanOfSamples ==
    (probe.called = "trainingLoop" /\ C30_Samples > 0) =>
        /\ probe.output[1][2] # 0
        /\ probe.output[1][1] * C30_Samples
             = probe.output[1][2] * C30_SampleLossSum

\* The places in the messages posted so far of the messages of a type that
\* belong to a request.
C31_Places(request, type) ==
    {i \in 1..Len(probe.output) :
        probe.output[i].request = request /\ probe.output[i].type = type}

\* C31: every encode request whose encoding has ended has exactly one
\* terminal message, complete or error and never both, and a request still
\* encoding has none yet.  The progress messages of a request precede its
\* terminal message, their current values are strictly increasing within
\* 1..total, total is the number of frames, and when there are frames the
\* last progress message has current = total.
C31_OneTerminalAfterProgress ==
    probe.called \in {"encode", "settle"} =>
      \A request \in 1..Len(probe.args) :
        LET progress == C31_Places(request, "progress")
            terminal == C31_Places(request, "complete")
                        \cup C31_Places(request, "error")
            length == probe.args[request].length
        IN /\ Cardinality(terminal)
                = (IF probe.args[request].pending THEN 0 ELSE 1)
           /\ \A i \in progress, j \in terminal : i < j
           /\ \A i \in progress :
                /\ probe.output[i].total = length
                /\ probe.output[i].current \in 1..length
           /\ \A i \in progress, j \in progress :
                i < j => probe.output[i].current < probe.output[j].current
           /\ length > 0 =>
                \E i \in progress :
                    /\ probe.output[i].current = length
                    /\ \A j \in progress : j <= i

\* Two requests of 12 and 21 frames were encoding at once; the first was
\* rejected and the second fulfilled.
C31_Witness ==
    /\ probe.called = "settle"
    /\ Len(probe.args) = 2
    /\ probe.args[1].length = 12
    /\ probe.args[2].length = 21
    /\ Len(probe.output) = 8
    /\ probe.output[7].type = "error"
    /\ probe.output[7].request = 1
    /\ probe.output[8].type = "complete"
    /\ probe.output[3].current = 12

\* C32: in every reachable state at most one continuation of trainingLoop
\* (a zero-delay timer) is pending, whatever the interleaving of commands
\* with a continuation already scheduled.
C32_AtMostOnePendingTimer == timers <= 1

\* C33: generateGif restores snapshots only temporarily.  When the command
\* has posted gifFrames and resumes no training, the model holds the
\* weights it held before the command, and the iteration counter, the
\* learning rate, the loss history and the snapshots are unchanged.
C33_GenerateGifRestoresTemporarily ==
    [][(/\ last'.type = "generateGif"
        /\ EventsOfType(posted', "gifFrames") # {}
        /\ ~ticked')
       => /\ network'.weights = network.weights
          /\ iteration' = iteration
          /\ learningRate' = learningRate
          /\ lossHistory' = lossHistory
          /\ snapshots' = snapshots]_vars

\* C34: whenever a model exists, its learning rate is the learningRate of
\* the worker and its momentum the momentum of the worker, after any
\* sequence of init, reset, setLearningRate, setMomentum and ticks, with or
\* without decay; and the learningRate of every progress event posted by
\* the handler that ran last is the learningRate of the worker.
C34_ModelFollowsWorkerParameters ==
    /\ network.present =>
         /\ network.learningRate = learningRate
         /\ network.momentum = momentum
    /\ \A i \in EventsOfType(posted, "progress") :
         posted[i].learningRate = learningRate

\* A tick has just decayed the rate: the worker, the model and the progress
\* event hold the decayed rate.
C34_Witness ==
    /\ ticked
    /\ lossHistory = <<>>
    /\ learningRate # initialLearningRate
    /\ last.type = "timer"
    /\ network.learningRate = learningRate
    /\ \E i \in EventsOfType(posted, "progress") :
         posted[i].learningRate = learningRate

\* C35: a reset without a learningRate sets the learning rate to the value
\* given by the most recent init or by the most recent reset that carried
\* one, whatever decay or setLearningRate did since.  initialLearningRate
\* is that value: init and a reset with a rate store the rate they carry
\* in it and no other step changes it, and a reset without a rate sets
\* learningRate to it.  A reset without a momentum keeps the momentum, and
\* no reset changes minLearningRate, batchSize or the stored image.
C35_ResetRestoresGivenRate ==
    [][/\ last'.type = "init" =>
            initialLearningRate' = last'.learningRate
       /\ (last'.type = "reset" /\ last'.learningRate # <<>>) =>
            /\ initialLearningRate' = last'.learningRate[1]
            /\ learningRate' = last'.learningRate[1]
       /\ (last'.type = "reset" /\ last'.learningRate = <<>>) =>
            /\ initialLearningRate' = initialLearningRate
            /\ learningRate' = initialLearningRate
       /\ last'.type \notin {"init", "reset"} =>
            initialLearningRate' = initialLearningRate
       /\ last'.type = "reset" =>
            /\ last'.momentum = <<>> => momentum' = momentum
            /\ last'.momentum # <<>> => momentum' = last'.momentum[1]
            /\ minLearningRate' = minLearningRate
            /\ batchSize' = batchSize
            /\ imageData' = imageData
            /\ imageWidth' = imageWidth
            /\ imageHeight' = imageHeight]_vars

\* init gave the rate -0.01, setLearningRate or a decay may have changed it
\* since, and a reset without a rate has put -0.01 back.
C35_Witness ==
    /\ last.type = "reset"
    /\ last.learningRate = <<>>
    /\ imageData # 0
    /\ commands = 0
    /\ initialLearningRate = -10000
    /\ learningRate = -10000
    /\ network.learningRate = -10000

\* C36: a decay is the hundredth tick at least since the last init, reset
\* or decay, so that two decays are at least LOSS_HISTORY_SIZE executed
\* ticks apart and none of the 99 ticks that follow an init or a reset
\* decays.  The loss history counts these ticks up to 100: init, reset and
\* a decaying tick (the only tick that leaves it empty) empty it, it grows
\* by at most one entry per step and only in a step that ticks, and a
\* decaying tick finds at least 99 entries.  A tick changes the learning
\* rate only by decaying.
C36_DecaysHundredTicksApart ==
    [][/\ last'.type \in {"init", "reset"} => lossHistory' = <<>>
       /\ Len(lossHistory') <= Len(lossHistory) + 1
       /\ Len(lossHistory') > Len(lossHistory) => ticked'
       /\ (ticked' /\ lossHistory' = <<>>) =>
            Len(lossHistory) >= LOSS_HISTORY_SIZE - 1
       /\ (ticked' /\ last'.type \in {"timer", "start", "generateGif"}
           /\ learningRate' # learningRate) =>
            lossHistory' = <<>>]_vars

\* The hundredth tick since init decayed the rate, and the tick after it
\* did not: the history holds its loss alone.
C36_Witness ==
    /\ ticked
    /\ iteration = (LOSS_HISTORY_SIZE + 1) * batchesPerFrame
    /\ Len(lossHistory) = 1
    /\ learningRate # initialLearningRate

\* C36 as stated: no decay occurs within the first 100 ticks after an init
\* or a reset, that is, a decaying tick follows 100 ticks at least and
\* finds a full history.
C36_NoDecayWithinHundredTicks ==
    [][(ticked' /\ lossHistory' = <<>>) =>
          Len(lossHistory) >= LOSS_HISTORY_SIZE]_vars

\* C37: in every reachable state the held snapshots are no more than the
\* milestones of the schedule, the k-th held snapshot carries an iteration
\* greater than or equal to the k-th milestone, and every snapshotCaptured
\* event has count <= total.
C37_SnapshotsWithinSchedule ==
    /\ Len(snapshots) <= Len(snapshotMilestones)
    /\ \A k \in 1..Len(snapshots) :
         /\ k \in DOMAIN snapshotMilestones
         /\ snapshots[k].iteration >= snapshotMilestones[k]
    /\ \A i \in EventsOfType(posted, "snapshotCaptured") :
         posted[i].count <= posted[i].total

\* The schedule <<0, 10, 100, 100>> is complete, its last snapshot taken at
\* iteration 150, and a further tick has captured nothing.
C37_Witness ==
    /\ snapshotMilestones = <<0, 10, 100, 100>>
    /\ Len(snapshots) = 4
    /\ snapshots[2].iteration = 50
    /\ snapshots[4].iteration = 150
    /\ iteration = 200
    /\ ticked
    /\ EventsOfType(posted, "snapshotCaptured") = {}

C39_StartsAreSeparated ==
    \A i \in 1..Len(probe.output), j \in 1..Len(probe.output) :
      (/\ i < j
       /\ probe.output[i].type = "start"
       /\ probe.output[j].type = "start")
      => \E k \in (i + 1)..(j - 1) :
           probe.output[k].type \in {"stop", "init", "reset"}

\* C40: a change of the learning-rate, momentum or batch-size slider posts
\* its own command only and never leads to an init: no init the component
\* posts comes from a loadImageFromUrl call that a slider handler caused.
C40_SliderNeverCausesInit ==
    \A i \in 1..Len(probe.output) :
      probe.output[i].type = "init"
      => probe.output[i].by \notin SliderHandlers

====
